---- MODULE Spec2Model ----
(***************************************************************************)
(* The server session of the voice pipeline:                                *)
(* OptimizedStreamingConsumer (backend/core/agents/ws/                      *)
(* optimized_streaming_consumer.py) with the AudioStreamer it writes audio  *)
(* through, the StreamingSTTService whose callbacks feed it and the         *)
(* StreamingVoiceRouter / StreamingTTSService generators it iterates.       *)
(*                                                                          *)
(* The consumer runs on one asyncio event loop.  Code between two awaits is *)
(* atomic, so every action below is the code from one suspension point to   *)
(* the next.  Three kinds of coroutine interleave:                          *)
(*   - the receive handler (Channels dispatches one inbound message at a    *)
(*     time and awaits its handler before the next), variable rx;           *)
(*   - one task per transcript, created by _on_transcript with              *)
(*     asyncio.create_task, variable tasks;                                 *)
(*   - the providers (STT results, router / LLM chunks, TTS chunks), which  *)
(*     are the nondeterministic inputs.                                     *)
(* Text is a sequence of characters, so that strip(), split() and the       *)
(* terminator test are computed as the code computes them.                  *)
(***************************************************************************)
EXTENDS Naturals, Sequences, FiniteSets

\* ------------------------------------------------------------------ bounds

\* what the edge does per session: control messages, audio chunks, the close
MaxClientMsgs == 5
\* the same for a session whose router streams responses
MaxStreamMsgs == 3
\* what the STT provider delivers per session: results (each accepted one is
\* a task) and errors
MaxTranscripts == 2
\* LLM tokens per response
MaxTokens == 2
\* audio chunks one TTS call yields
MaxTtsChunks == 1
\* chunks the audio source of one AudioStreamer call yields
MaxSourceChunks == 2
\* what the edge does with its AudioPlayer: playback sessions, chunks fed per
\* session, interrupts, and writes the output device refuses
MaxSessions == 2
MaxChunks == 4
\* buffer_size of the AudioPlayer (max_size of its AudioBuffer), in chunks
MaxSize == 3
MaxInterrupts == 2
MaxWriteErrors == 1
\* what the capture controller lives through: microphone chunks read, wake
\* words that start a capture session, losses of the transport, responses
\* that start playing
MaxMicChunks == 7
MaxCaptures == 2
MaxDrops == 1
MaxResponses == 1
\* what the transport of the edge lives through: calls of connect(),
\* connection attempts, and the max_retries it is configured with
MaxConnects == 2
MaxAttempts == 12
MaxRetriesChoices == {0, 2, 10}
\* what the handler of the edge receives: audio streams, binary frames,
\* stop_playback messages; and the chunks its silence filler adds
MaxStreams == 2
MaxFrames == 4
MaxStops == 1
MaxFills == 2
\* silence_chunks_needed of the SilenceDetector (silence_duration_ms over
\* chunk_duration_ms)
SilenceChunksNeeded == 2


\* -------------------------------------------------------- program constants

\* confidence is kept in hundredths: 0.7 and 0.95 of _process_transcript
FinalConfidence == 70
HighConfidence == 95
\* "elif word_count >= 20" of _generate_response
LongBufferWords == 20
\* "if word_count < 3" and "if word_count >= 5" of _detect_intent_early
MinIntentWords == 3
MinQuestionWords == 5
\* buffering_chunks of AudioPlayer.__init__
BufferingChunks == 2
\* initial_retry_delay and max_retry_delay of the WebSocketClient, in seconds
InitialRetryDelay == 1
MaxRetryDelay == 60
\* "if buffer_size >= 8192" of handle_binary_message and "buffer_size < 8192"
\* of _fill_silence, in chunks, on the scale of MaxSize
PrebufferChunks == 2
\* the max_retries that env_vars gives the WebSocketClient by default
WsMaxRetries == 10
\* "if size < self.chunk_size * 2" of AudioPlayer.end_session, in chunks of
\* chunk_size bytes
DrainedChunks == 2

\* -------------------------------------------------------------------- text

Terminators == {".", "!", "?"}

RECURSIVE LStrip(_)
LStrip(s) == IF s = <<>> THEN <<>>
             ELSE IF Head(s) = " " THEN LStrip(Tail(s)) ELSE s

RECURSIVE RStrip(_)
RStrip(s) == IF s = <<>> THEN <<>>
             ELSE IF s[Len(s)] = " " THEN RStrip(SubSeq(s, 1, Len(s) - 1)) ELSE s

\* str.strip()
Strip(s) == RStrip(LStrip(s))

\* len(s.split()): the number of maximal runs of non-space characters
WordCount(s) ==
    Cardinality({i \in 1..Len(s) : s[i] # " " /\ (i = 1 \/ s[i - 1] = " ")})

\* any(char in content for char in {".", "!", "?"})
HasTerminator(s) == \E i \in 1..Len(s) : s[i] \in Terminators

\* the texts of the model
T_space == <<" ">>
T_word == <<"a">>
T_three == <<"a", " ", "a", " ", "a">>
T_sentence == <<"a", ".">>

\* what the STT provider can put in a Results message: the transcript, the
\* flags (speech_final comes with is_final), the confidence in hundredths and
\* the tag the pattern table of _detect_intent_early finds in the text
SttResult_(x, p, f, sf, c) ==
    [text |-> x, pattern |-> p, is_final |-> f, speech_final |-> sf,
     confidence |-> c]

SttResults ==
    { SttResult_(T_space, "None", TRUE, TRUE, 80),
      SttResult_(T_word, "None", FALSE, FALSE, 99),
      SttResult_(T_word, "None", TRUE, FALSE, 50),
      SttResult_(T_word, "None", TRUE, FALSE, 80),
      SttResult_(T_word, "None", TRUE, TRUE, 80),
      SttResult_(T_three, "weather", FALSE, FALSE, 50),
      SttResult_(T_three, "weather", TRUE, FALSE, 80) }

\* the Results messages of the sessions whose responses are streamed: an
\* interim one of high confidence, a final one, and an interim one in which
\* the pattern table finds an intent
StreamSttResults ==
    { SttResult_(T_word, "None", FALSE, FALSE, 99),
      SttResult_(T_word, "None", TRUE, TRUE, 80),
      SttResult_(T_three, "weather", FALSE, FALSE, 50) }

\* the content of one LLM chunk (chunk.content is non-empty)
Tokens == {T_word, T_sentence}
\* what an agent can answer
AgentResponses == {T_sentence}

RECURSIVE Concat(_)
Concat(ss) == IF ss = <<>> THEN <<>> ELSE Head(ss) \o Concat(Tail(ss))

\* ------------------------------------------------------------------- state

VARIABLES
    phase,          \* "new" before connect(), "open" after, "closed" once the
                    \* transport has closed
    self,           \* the fields of the consumer
    router_params,  \* the keyword parameters self.voice_router.stream_response takes
    stt,            \* the StreamingSTTService objects created so far, by number
    stt_in,         \* per STT object, the audio chunks sent to the provider
    rx,             \* the receive handler: where it is suspended
    tasks,          \* the _process_transcript tasks
    ntasks,         \* how many tasks were created
    nresults,       \* how many results the STT provider delivered
    last_result,    \* the last result the STT provider delivered
    nmsgs,          \* how many inbound messages the edge sent
    last_msg,       \* the last inbound message
    edge_stopped,   \* the edge has sent stop_audio_input since its last
                    \* start_audio_input
    interrupted,    \* the tasks that were in _generate_response when
                    \* _handle_interrupt ran
    sent,           \* the frames the last step wrote to the socket, in order
    stream_open,    \* the socket carries an audio_start that no audio_end or
                    \* stop_playback has closed yet
    streamer,       \* an AudioStreamer in one call of stream_audio,
                    \* stream_audio_bytes or text_to_speech_stream
    wire,           \* the frames that call and send_stop_playback wrote to
                    \* the streamer's websocket, in order
    player,         \* the fields of the edge's AudioPlayer and its AudioBuffer
    ploop,          \* the task of AudioPlayer._playback_loop: where it is
                    \* suspended and its locals
    caller,         \* the coroutine that calls begin_session, feed and
                    \* end_session, and what the edge has done so far
                    \* (ended_with: the buffer as end_session found it;
                    \* last: the method that acted last; cut: the chunks that
                    \* interrupt() found in the buffer; peak: the most
                    \* chunks the buffer has held in each session; fed_ok:
                    \* what the last feed returned)
    device,         \* what the output device saw, in order: stream opened,
                    \* chunk written (with its fade), stream closed
    ctl,            \* the edge's StreamingWakeWordController with its
                    \* detectors, its processing task, and what surrounds it
                    \* (the transport, the clock, the playback)
    uplink,         \* what the controller sent to the server, in order, and
                    \* its interrupts of the player
    client,         \* the edge's WebSocketClient with its connection task,
                    \* and what it has done so far (attempts: connection
                    \* attempts made; fails: attempts that failed since the
                    \* last one that succeeded; disconnects: calls of
                    \* on_disconnect)
    handler         \* the AudioStreamHandler that the client hands the
                    \* messages of the server to, with its silence filler,
                    \* and what it has received so far

\* the consumer and its providers
session == <<phase, self, router_params, stt, stt_in, rx, tasks, ntasks, nresults,
             last_result, nmsgs, last_msg, edge_stopped, interrupted, sent,
             stream_open>>
\* the AudioStreamer in a call of its own
helper == <<streamer, wire>>
\* the playback engine of the edge
edge == <<player, ploop, caller, device>>
\* the capture controller of the edge
capture == <<ctl, uplink>>
\* the transport of the edge and the handler of what it receives
link == <<client, handler>>
\* the components that run apart from the consumer
elsewhere == <<helper, edge, capture, link>>

vars == <<session, elsewhere>>

\* the parameters of StreamingVoiceRouter.stream_response
StreamResponseParams == {"transcript", "session_id", "metadata", "route_hint"}
\* the keywords _generate_response passes to it
GenerateResponseKwargs ==
    {"transcript", "session_id", "route_hint", "parallel_routing"}

\* a frame on the socket: its type, the coroutine that wrote it (0 is the
\* receive handler or the _handle_stt_error task), its text, and whether an
\* audio stream was open when it was written
Frame(type, t, text) ==
    [type |-> type, task |-> t, text |-> text, in_stream |-> FALSE]

NoTask ==
    [pc |-> "unborn", text |-> <<>>, is_final |-> FALSE, speech_final |-> FALSE,
     confidence |-> 0, pattern |-> "None", stt_id |-> 0, rpc |-> "none",
     llm_tokens |-> <<>>, full_response |-> <<>>, current_buffer |-> <<>>,
     word_count |-> 0, first_audio_sent |-> FALSE, tts_text |-> <<>>,
     tts_left |-> 0, tts_cont |-> "none", generated |-> FALSE,
     stt_src |-> 0, final_result |-> FALSE, tts_gen |-> FALSE,
     unsent |-> <<>>, silent |-> FALSE]

\* __init__
ConsumerInit ==
    [is_receiving_audio |-> FALSE, is_playing_audio |-> FALSE,
     should_interrupt |-> FALSE, current_transcript |-> <<>>,
     last_interim_transcript |-> <<>>, intent_detected |-> FALSE,
     detected_route |-> "None", response_start_time |-> 0,
     audio_streamer |-> FALSE, is_streaming |-> FALSE,
     audio_buffer_before_stt_start |-> <<>>, stt_started |-> FALSE,
     stt_service |-> 0, tts_service |-> FALSE, voice_router |-> FALSE]

\* AudioStreamer.__init__, before any call
StreamerInit ==
    [call |-> "none", pc |-> "none", is_streaming |-> FALSE,
     stop_requested |-> FALSE, send_start |-> TRUE, send_end |-> TRUE,
     source |-> <<>>, raises |-> FALSE, stop_pc |-> "none"]

\* no chunk (None)
NoChunk == [session |-> 0, n |-> 0]

\* AudioPlayer.__init__ and AudioBuffer.__init__
PlayerInit ==
    [state |-> "IDLE", session_active |-> FALSE, first_chunk |-> TRUE,
     output_stream |-> FALSE, buffer |-> <<>>]

\* AudioPlayer.start(): the playback task is created and has not run yet
InitEdge ==
    /\ player = PlayerInit
    /\ ploop = [pc |-> "top", chunk |-> NoChunk, fade |-> "none",
                last_chunk |-> NoChunk, popped |-> NoChunk]
    /\ caller = [pc |-> "none", sessions |-> 0, fed |-> 0, interrupts |-> 0,
                 write_errors |-> 0, ended_with |-> <<>>, last |-> "none",
                 cut |-> {}, peak |-> [k \in 1..MaxSessions |-> 0],
                 fed_ok |-> TRUE]
    /\ device = <<>>

\* StreamingWakeWordController.__init__ with its SilenceDetector and its
\* wake word detector, then start(); the transport is connected
InitCapture ==
    /\ ctl = [pc |-> "idle", cont |-> "none", sent_ok |-> TRUE,
              is_running |-> TRUE, is_streaming |-> FALSE,
              is_playing_response |-> FALSE, listening |-> TRUE,
              baseline |-> 0, is_speaking |-> FALSE, silence_chunk_count |-> 0,
              timing |-> FALSE, late |-> FALSE, level |-> "mid",
              sessions |-> 0, mic |-> 0, up |-> TRUE, drops |-> 0,
              response |-> "none", responses |-> 0, reason |-> "none",
              barge |-> FALSE, window |-> <<>>]
    /\ uplink = <<>>

\* WebSocketClient.__init__ with max_retries = n
ClientInit(n) ==
    [pc |-> "new", running |-> FALSE, ws |-> "None", retry_count |-> 0,
     max_retries |-> n, delay |-> 0, connects |-> 0, attempts |-> 0,
     fails |-> 0, disconnects |-> 0]

\* AudioStreamHandler.__init__; stream ids are numbers, 0 is None
HandlerInit ==
    [active_stream_id |-> 0, playback_started |-> FALSE, filler |-> FALSE,
     streams |-> 0, frames |-> 0, stops |-> 0, fills |-> 0]

InitLink ==
    /\ client = ClientInit(WsMaxRetries)
    /\ handler = HandlerInit

InitSession ==
    /\ phase = "new"
    /\ self = ConsumerInit
    /\ stt = <<>>
    /\ stt_in = <<>>
    /\ rx = [pc |-> "idle", cont |-> "none", id |-> 0]
    /\ tasks = [t \in 1..MaxTranscripts |-> NoTask]
    /\ ntasks = 0
    /\ nresults = 0
    /\ last_result = [text |-> <<>>, is_final |-> FALSE, speech_final |-> FALSE,
                      confidence |-> 0, pattern |-> "None"]
    /\ nmsgs = 0
    /\ last_msg = "none"
    /\ edge_stopped = FALSE
    /\ interrupted = {}
    /\ sent = <<>>
    /\ stream_open = FALSE

InitCommon ==
    /\ InitSession
    /\ streamer = StreamerInit
    /\ wire = <<>>
    /\ InitEdge
    /\ InitCapture
    /\ InitLink

Init == InitCommon /\ router_params = StreamResponseParams

\* --------------------------------------------- code between two suspensions
\* A world w is what one coroutine reads and writes while it runs: the
\* consumer's fields, the socket, the STT objects and the locals tk of the
\* running task.  The operators below map the world at one suspension point to
\* the world at the next one; tk.pc names where the task is suspended.

World(t) ==
    [self |-> self, sent |-> <<>>, stream_open |-> stream_open, stt |-> stt,
     phase |-> phase, tk |-> tasks[t]]

\* self.send(...) / websocket.send(...): the frame goes on the socket; the
\* server drops what is sent for a connection that has closed
Send(w, f) ==
    IF w.phase = "closed" THEN w
    ELSE
    [w EXCEPT !.sent = Append(@, [f EXCEPT !.in_stream = w.stream_open]),
              !.stream_open = IF f.type = "audio_start" THEN TRUE
                              ELSE IF f.type \in {"audio_end", "stop_playback"}
                              THEN FALSE
                              ELSE @]

RECURSIVE SendAll(_, _)
SendAll(w, fs) == IF fs = <<>> THEN w ELSE SendAll(Send(w, Head(fs)), Tail(fs))

\* a "complete" branch that closes the audio stream before the completion
SendResponseCompleteAfterAudioEnd(w, t) ==
    [Send(Send(w, Frame("audio_end", t, <<>>)),
          Frame("response_complete", t, w.tk.full_response))
        EXCEPT !.tk.pc = "done"]

\* _generate_response, the "complete" branch from "Send completion" on
SendResponseComplete(w, t) ==
    [Send(w, Frame("response_complete", t, w.tk.full_response))
        EXCEPT !.tk.pc = "done"]

\* the return of _stream_text_chunk into _generate_response: after a token
\* chunk the buffer is cleared and the next chunk is awaited, after the
\* complete chunk response_complete is sent
AfterStreamTextChunk(w, t) ==
    IF w.tk.tts_cont = "token"
    THEN [w EXCEPT !.tk.first_audio_sent = TRUE, !.tk.current_buffer = <<>>,
                   !.tk.tts_left = 0, !.tk.tts_text = <<>>, !.tk.tts_gen = FALSE,
                   !.tk.pc = "pull"]
    ELSE SendResponseComplete(
            [w EXCEPT !.tk.tts_left = 0, !.tk.tts_text = <<>>,
                      !.tk.tts_gen = FALSE], t)

\* the except branch of _stream_text_chunk
StreamTextChunkExcept(w, t) ==
    AfterStreamTextChunk([w EXCEPT !.self.is_playing_audio = FALSE], t)

\* _stream_text_chunk after the TTS loop: the silence padding is sent through
\* self.audio_streamer (an AttributeError when that is None)
SilencePadding(w, t) ==
    IF ~w.self.audio_streamer
    THEN StreamTextChunkExcept(w, t)
    ELSE [Send(w, Frame("audio", t, <<>>))
            EXCEPT !.tk.tts_left = 0, !.tk.tts_gen = FALSE, !.tk.pc = "tts_padded"]

\* a TTS loop that gives no audio any more once a text of the response had none
TtsLoopStoppingAfterFailure(w, t) ==
    IF ~w.tk.tts_gen /\ ~w.self.tts_service THEN StreamTextChunkExcept(w, t)
    ELSE IF w.tk.tts_left = 0 \/ w.tk.silent THEN SilencePadding(w, t)
    ELSE IF w.self.should_interrupt THEN SilencePadding(w, t)
    ELSE IF ~w.self.audio_streamer THEN StreamTextChunkExcept(w, t)
    ELSE [Send(w, Frame("audio", t, w.tk.tts_text))
            EXCEPT !.tk.tts_left = @ - 1, !.tk.tts_gen = TRUE,
                   !.tk.unsent = IF @ # <<>> /\ Head(@) = w.tk.tts_text
                                 THEN Tail(@) ELSE @,
                   !.tk.pc = "tts_loop"]

\* _stream_text_chunk, one turn of "async for audio_chunk, metadata in
\* self.tts_service.generate_streaming(...)": the first turn makes the
\* generator (an AttributeError once disconnect() has set tts_service to
\* None), and the generator does no await of its own
TtsLoop(w, t) ==
    IF ~w.tk.tts_gen /\ ~w.self.tts_service THEN StreamTextChunkExcept(w, t)
    ELSE IF w.tk.tts_left = 0 THEN SilencePadding(w, t)
    ELSE IF w.self.should_interrupt THEN SilencePadding(w, t)
    ELSE IF ~w.self.audio_streamer THEN StreamTextChunkExcept(w, t)
    ELSE [Send(w, Frame("audio", t, w.tk.tts_text))
            EXCEPT !.tk.tts_left = @ - 1, !.tk.tts_gen = TRUE,
                   !.tk.unsent = IF @ # <<>> /\ Head(@) = w.tk.tts_text
                                 THEN Tail(@) ELSE @,
                   !.tk.pc = "tts_loop"]

\* _stream_text_chunk from its entry: n is the number of audio chunks the
\* TTS provider has for this text (none when the synthesis fails or yields
\* no audio), cont the caller's branch.  The task remembers, for the response
\* it generates, the texts the provider had audio for whose audio has not
\* gone on the socket, in order (unsent), and whether a text had none (silent)
stream_text_chunk(w, t, text, n, cont) ==
    IF Strip(text) = <<>>
    THEN AfterStreamTextChunk([w EXCEPT !.tk.tts_cont = cont], t)
    ELSE LET w1 == [w EXCEPT !.self.is_playing_audio = TRUE,
                             !.tk.tts_text = text, !.tk.tts_left = n,
                             !.tk.tts_cont = cont,
                             !.tk.unsent = IF n > 0 THEN Append(@, text) ELSE @,
                             !.tk.silent = (@ \/ n = 0)]
         IN IF ~w1.self.audio_streamer
            THEN [Send([w1 EXCEPT !.self.audio_streamer = TRUE,
                                  !.self.is_streaming = TRUE],
                       Frame("audio_start", t, <<>>))
                    EXCEPT !.tk.pc = "tts_loop"]
            ELSE TtsLoop(w1, t)

\* _generate_response, chunk_type == "token"
ProcessToken(w, t, content, n) ==
    LET buffer == w.tk.current_buffer \o content
        counted == IF Strip(content) # <<>>
                   THEN w.tk.word_count + WordCount(Strip(content))
                   ELSE w.tk.word_count
        should_stream ==
            IF HasTerminator(content) THEN Strip(buffer) # <<>>
            ELSE counted >= LongBufferWords
        w1 == [w EXCEPT !.tk.full_response = @ \o content,
                        !.tk.current_buffer = buffer,
                        !.tk.word_count = IF should_stream THEN 0 ELSE counted]
    IN IF should_stream /\ Strip(buffer) # <<>>
       THEN stream_text_chunk(w1, t, Strip(buffer), n, "token")
       ELSE [w1 EXCEPT !.tk.pc = "pull"]

\* _generate_response, chunk_type == "complete"
ProcessComplete(w, t, content, n) ==
    LET w1 == [w EXCEPT !.tk.full_response = content, !.tk.tts_cont = "complete"]
    IN IF Strip(w.tk.current_buffer) # <<>>
       THEN stream_text_chunk(w1, t, Strip(w.tk.current_buffer), n, "complete")
       ELSE IF ~w.tk.first_audio_sent
       THEN stream_text_chunk(w1, t, content, n, "complete")
       ELSE SendResponseComplete(w1, t)

\* _generate_response, chunk_type == "error"
ProcessError(w, t) ==
    [Send(w, Frame("error", t, <<>>)) EXCEPT !.tk.pc = "done"]

\* stream_response up to its first yield, and the "route" branch of
\* _generate_response: a route hint other than DIRECT skips _quick_route
RouteDecided(w, t, decision) ==
    [Send(w, Frame("route_decision", t, <<>>))
        EXCEPT !.tk.rpc = IF decision = "AGENT" THEN "agent" ELSE "llm",
               !.tk.pc = "pull"]

\* _generate_response from its entry to the first await: the call of
\* stream_response binds the keywords to the parameters, and a keyword that is
\* no parameter raises TypeError into "except Exception", as does a
\* voice_router that disconnect() has set to None
generate_response(w, t) ==
    LET w1 == [w EXCEPT !.self.response_start_time = 1, !.tk.generated = TRUE] IN
    IF ~w.self.voice_router \/ ~(GenerateResponseKwargs \subseteq router_params)
    THEN [Send(w1, Frame("error", t, <<>>)) EXCEPT !.tk.pc = "done"]
    ELSE IF w1.self.detected_route \notin {"None", "DIRECT"}
    THEN RouteDecided(w1, t, "AGENT")
    ELSE [w1 EXCEPT !.tk.pc = "routing"]

\* _stop_audio_input as _process_transcript calls it, then _generate_response.
\* close_stream returns at once when the service is not connected, and
\* otherwise sends CloseStream and sleeps 100 ms
stop_audio_input(w, t) ==
    IF ~w.self.is_receiving_audio /\ w.self.stt_service = 0
    THEN generate_response(w, t)
    ELSE LET id == w.self.stt_service
             w1 == [w EXCEPT !.self.is_receiving_audio = FALSE]
         IN IF id # 0 /\ w.stt[id] = "open"
            THEN [w1 EXCEPT !.stt[id] = "closing", !.tk.stt_id = id,
                            !.tk.pc = "closing"]
            ELSE [Send([w1 EXCEPT !.self.stt_service = 0],
                       Frame("audio_input_stopped", t, <<>>))
                    EXCEPT !.tk.pc = "gen"]

\* _process_transcript, "Trigger response on speech_final or final with high
\* confidence"
TriggerResponse(w, t) ==
    IF /\ (w.tk.speech_final \/ (w.tk.is_final /\ w.tk.confidence > FinalConfidence))
       /\ Strip(w.tk.text) # <<>>
    THEN IF w.self.current_transcript = w.tk.text /\ w.self.response_start_time # 0
         THEN [w EXCEPT !.tk.pc = "done"]
         ELSE stop_audio_input(w, t)
    ELSE [w EXCEPT !.tk.pc = "done"]

\* StreamingVoiceRouter._detect_intent_early: pattern is the tag the pattern
\* table finds in the text, "DIRECT" standing for a question starter
detect_intent_early(text, pattern) ==
    IF WordCount(Strip(text)) < MinIntentWords THEN "None"
    ELSE IF pattern \notin {"None", "DIRECT"} THEN pattern
    ELSE IF WordCount(Strip(text)) >= MinQuestionWords /\ pattern = "DIRECT"
    THEN "DIRECT"
    ELSE "None"

\* _process_transcript from "Update transcript state" to the next await
UpdateTranscript(w, t) ==
    LET promote == /\ ~w.tk.is_final
                   /\ ~w.self.is_receiving_audio
                   /\ w.tk.confidence > HighConfidence
                   /\ Strip(w.tk.text) # <<>>
        w1 == IF w.tk.is_final
              THEN [w EXCEPT !.self.current_transcript = w.tk.text]
              ELSE IF promote
              THEN [w EXCEPT !.self.last_interim_transcript = w.tk.text,
                             !.self.current_transcript = w.tk.text,
                             !.tk.is_final = TRUE]
              ELSE [w EXCEPT !.self.last_interim_transcript = w.tk.text]
        route == detect_intent_early(w.tk.text, w.tk.pattern)
    IN IF /\ ~w1.self.intent_detected
          /\ ~w1.tk.is_final
          /\ w1.self.voice_router
          /\ route # "None"
       THEN [Send([w1 EXCEPT !.self.intent_detected = TRUE,
                             !.self.detected_route = route],
                  Frame("intent_detected", t, <<>>))
                EXCEPT !.tk.pc = "trigger"]
       ELSE TriggerResponse(w1, t)

\* ----------------------------------------------------------------- actions

\* a finished task keeps the transcript it was created for, whether the
\* provider marked it final and whether it went into _generate_response; its
\* other locals are gone
Finished(tk) ==
    [NoTask EXCEPT !.pc = "done", !.text = tk.text,
                   !.final_result = tk.final_result, !.generated = tk.generated]

\* the locals of _process_transcript that _generate_response never reads
InGeneration(tk) ==
    [tk EXCEPT !.is_final = FALSE, !.speech_final = FALSE, !.confidence = 0,
               !.pattern = "None", !.stt_id = 0, !.stt_src = 0]

Commit(t, w) ==
    /\ self' = w.self
    /\ sent' = w.sent
    /\ stream_open' = w.stream_open
    /\ stt' = w.stt
    /\ tasks' = [tasks EXCEPT ![t] = IF w.tk.pc = "done" THEN Finished(w.tk)
                                      ELSE IF w.tk.generated THEN InGeneration(w.tk)
                                      ELSE w.tk]
    /\ interrupted' = IF w.tk.pc = "done" THEN interrupted \ {t} ELSE interrupted
    /\ UNCHANGED elsewhere

RxFrame(type) == Frame(type, 0, <<>>)

\* the frames one step of the receive handler writes
Emit(fs) ==
    LET w == SendAll([sent |-> <<>>, stream_open |-> stream_open,
                      phase |-> phase], fs)
    IN /\ sent' = w.sent
       /\ stream_open' = w.stream_open
       /\ UNCHANGED elsewhere

\* connect(): the connected frame, then _send_welcome_audio with n chunks of
\* cached audio (n = 0: the cache is empty or could not be generated)
Connect(n) ==
    /\ phase = "new"
    /\ phase' = "open"
    /\ self' = [self EXCEPT !.tts_service = TRUE, !.voice_router = TRUE]
    /\ Emit(<<RxFrame("connected")>> \o
            (IF n = 0 THEN <<>>
             ELSE <<RxFrame("audio_start")>> \o
                  [i \in 1..n |-> RxFrame("audio")] \o
                  <<RxFrame("audio_end")>>))
    /\ UNCHANGED <<router_params, stt, stt_in, rx, tasks, ntasks, nresults,
                   last_result, nmsgs, last_msg, edge_stopped, interrupted>>

\* the edge sends a message and receive() starts its handler
Inbound(msg) ==
    /\ phase = "open"
    /\ rx.pc = "idle"
    /\ nmsgs < (IF GenerateResponseKwargs \subseteq router_params
                THEN MaxStreamMsgs ELSE MaxClientMsgs)
    /\ nmsgs' = nmsgs + 1
    /\ last_msg' = msg
    /\ edge_stopped' = IF msg = "stop_audio_input" THEN TRUE
                       ELSE IF msg = "start_audio_input" THEN FALSE
                       ELSE edge_stopped

\* _start_audio_input from "Extract config" on: the reset for a new utterance
StartNewUtterance(c) ==
    [c EXCEPT !.current_transcript = <<>>, !.last_interim_transcript = <<>>,
              !.intent_detected = FALSE, !.detected_route = "None",
              !.audio_buffer_before_stt_start = <<>>, !.stt_started = FALSE,
              !.is_receiving_audio = TRUE]

\* _handle_interrupt up to its first await
InterruptBegin(cont) ==
    /\ interrupted' = interrupted \cup
                        {t \in 1..MaxTranscripts :
                            tasks[t].generated /\ tasks[t].pc # "done"}
    /\ self' = [self EXCEPT !.should_interrupt = TRUE, !.is_playing_audio = FALSE,
                            !.is_streaming = IF self.audio_streamer THEN FALSE ELSE @]
    /\ IF self.audio_streamer
       THEN /\ Emit(<<RxFrame("stop_playback")>>)
            /\ rx' = [pc |-> "stop_sent", cont |-> cont, id |-> 0]
       ELSE /\ Emit(<<RxFrame("interrupted")>>)
            /\ rx' = [pc |-> "sleep", cont |-> cont, id |-> 0]

\* a start_audio_input handler without the "Audio input already active" return
ReceiveStartAudioInputRestarting ==
    /\ Inbound("start_audio_input")
    /\ IF self.is_playing_audio
       THEN InterruptBegin("start")
       ELSE /\ self' = StartNewUtterance(self)
            /\ Emit(<<RxFrame("audio_input_started")>>)
            /\ UNCHANGED <<rx, interrupted>>
    /\ UNCHANGED <<phase, router_params, stt, stt_in, tasks, ntasks, nresults,
                   last_result>>

\* receive(): start_audio_input
ReceiveStartAudioInput ==
    /\ Inbound("start_audio_input")
    /\ IF self.is_receiving_audio
       THEN UNCHANGED <<self, rx, interrupted>> /\ Emit(<<>>)
       ELSE IF self.is_playing_audio
       THEN InterruptBegin("start")
       ELSE /\ self' = StartNewUtterance(self)
            /\ Emit(<<RxFrame("audio_input_started")>>)
            /\ UNCHANGED <<rx, interrupted>>
    /\ UNCHANGED <<phase, router_params, stt, stt_in, tasks, ntasks, nresults,
                   last_result>>

\* receive(): interrupt
ReceiveInterrupt ==
    /\ Inbound("interrupt")
    /\ InterruptBegin("none")
    /\ UNCHANGED <<phase, router_params, stt, stt_in, tasks, ntasks, nresults,
                   last_result>>

\* _handle_interrupt after send_stop_playback: the interrupted frame
InterruptSendInterrupted ==
    /\ rx.pc = "stop_sent"
    /\ Emit(<<RxFrame("interrupted")>>)
    /\ rx' = [rx EXCEPT !.pc = "sleep"]
    /\ UNCHANGED <<phase, self, router_params, stt, stt_in, tasks, ntasks,
                   nresults, last_result, nmsgs, last_msg, edge_stopped, interrupted>>

\* _handle_interrupt after asyncio.sleep(0.1), and the rest of
\* _start_audio_input when that called it
InterruptReset ==
    /\ rx.pc = "sleep"
    /\ LET c == [self EXCEPT !.should_interrupt = FALSE, !.audio_streamer = FALSE,
                             !.is_streaming = FALSE]
       IN IF rx.cont = "start"
          THEN /\ self' = StartNewUtterance(c)
               /\ Emit(<<RxFrame("audio_input_started")>>)
          ELSE /\ self' = c
               /\ Emit(<<>>)
    /\ rx' = [pc |-> "idle", cont |-> "none", id |-> 0]
    /\ UNCHANGED <<phase, router_params, stt, stt_in, tasks, ntasks, nresults,
                   last_result, nmsgs, last_msg, edge_stopped, interrupted>>

\* a stop_audio_input handler that acknowledges with audio_input_stopped
ReceiveStopAudioInputAcknowledging ==
    /\ Inbound("stop_audio_input")
    /\ self' = [self EXCEPT !.is_receiving_audio = FALSE]
    /\ Emit(<<RxFrame("audio_input_stopped")>>)
    /\ UNCHANGED <<phase, router_params, stt, stt_in, rx, tasks, ntasks, nresults,
                   last_result, interrupted>>

\* receive(): stop_audio_input (the CloseStream goes to the provider, which
\* answers with the results it still has)
ReceiveStopAudioInput ==
    /\ Inbound("stop_audio_input")
    /\ self' = [self EXCEPT !.is_receiving_audio = FALSE]
    /\ Emit(<<>>)
    /\ UNCHANGED <<phase, router_params, stt, stt_in, rx, tasks, ntasks, nresults,
                   last_result, interrupted>>

\* receive(): a binary frame, _handle_audio_chunk.  The first chunk of a turn
\* is buffered and _start_stt_with_buffered_audio creates the STT service and
\* awaits start_stream; later chunks go to send_audio, which raises
\* (and is logged) when the service is not connected
ReceiveAudioChunk ==
    /\ Inbound("audio_chunk")
    /\ IF ~self.is_receiving_audio
       THEN UNCHANGED <<self, stt, stt_in, rx>>
       ELSE IF ~self.stt_started
       THEN /\ self' = [self EXCEPT
                    !.audio_buffer_before_stt_start = Append(@, nmsgs + 1),
                    !.stt_service = Len(stt) + 1]
            /\ stt' = Append(stt, "new")
            /\ stt_in' = Append(stt_in, <<>>)
            /\ rx' = [pc |-> "stt_starting", cont |-> "none", id |-> 0]
       ELSE /\ IF self.stt_service # 0 /\ stt[self.stt_service] = "open"
               THEN stt_in' = [stt_in EXCEPT ![self.stt_service] =
                                    Append(@, nmsgs + 1)]
               ELSE UNCHANGED stt_in
            /\ UNCHANGED <<self, stt, rx>>
    /\ Emit(<<>>)
    /\ UNCHANGED <<phase, router_params, tasks, ntasks, nresults, last_result,
                   interrupted>>

\* _start_stt_with_buffered_audio after "await self.stt_service.start_stream":
\* it raised (ok = FALSE), or it connected and the buffered chunks are sent
\* through self.stt_service, which a transcript task may have closed or set to
\* None meanwhile (the except branch)
SttStartReturns(ok) ==
    /\ rx.pc = "stt_starting"
    /\ LET id == Len(stt)
           usable == ok /\ self.stt_service = id
       IN /\ stt' = [stt EXCEPT ![id] = IF ok THEN "open" ELSE "failed"]
          /\ IF usable
             THEN /\ stt_in' = [stt_in EXCEPT ![id] =
                                    @ \o self.audio_buffer_before_stt_start]
                  /\ self' = [self EXCEPT !.stt_started = TRUE,
                                          !.audio_buffer_before_stt_start = <<>>]
             ELSE /\ UNCHANGED stt_in
                  /\ self' = [self EXCEPT !.stt_started = FALSE,
                                          !.audio_buffer_before_stt_start = <<>>]
    /\ rx' = [pc |-> "idle", cont |-> "none", id |-> 0]
    /\ Emit(<<>>)
    /\ UNCHANGED <<phase, router_params, tasks, ntasks, nresults, last_result,
                   nmsgs, last_msg, edge_stopped, interrupted>>

\* an _on_transcript without "Skip empty transcripts"
SttResultKeepingEmpty(id, r) ==
    /\ id \in DOMAIN stt
    /\ stt[id] \in {"open", "closing"}
    /\ nresults < MaxTranscripts
    /\ nresults' = nresults + 1
    /\ last_result' = r
    /\ ntasks' = ntasks + 1
    /\ tasks' = [tasks EXCEPT ![ntasks + 1] =
            [NoTask EXCEPT !.pc = "created", !.text = r.text, !.stt_src = id,
                           !.final_result = r.is_final, !.is_final = r.is_final,
                           !.speech_final = r.speech_final,
                           !.confidence = r.confidence, !.pattern = r.pattern]]
    /\ Emit(<<>>)
    /\ UNCHANGED <<phase, self, router_params, stt, stt_in, rx, nmsgs, last_msg,
                   edge_stopped,
                   interrupted>>

\* StreamingSTTService._on_transcript of service id: a Results message of the
\* provider on a connection whose listening task is alive.  An empty transcript
\* is skipped;
\* any other reaches OptimizedStreamingConsumer._on_transcript, which creates
\* the task
SttResult(id, r) ==
    /\ id \in DOMAIN stt
    /\ stt[id] \in {"open", "closing"}
    /\ nresults < MaxTranscripts
    /\ nresults' = nresults + 1
    /\ last_result' = r
    /\ IF Strip(r.text) = <<>>
       THEN UNCHANGED <<tasks, ntasks>>
       ELSE /\ ntasks' = ntasks + 1
            /\ tasks' = [tasks EXCEPT ![ntasks + 1] =
                    [NoTask EXCEPT !.pc = "created", !.text = r.text,
                                   !.stt_src = id,
                                   !.final_result = r.is_final,
                                   !.is_final = r.is_final,
                                   !.speech_final = r.speech_final,
                                   !.confidence = r.confidence,
                                   !.pattern = r.pattern]]
    /\ Emit(<<>>)
    /\ UNCHANGED <<phase, self, router_params, stt, stt_in, rx, nmsgs, last_msg,
                   edge_stopped,
                   interrupted>>

\* what last_result holds after an error of the provider
ErrorResult == SttResult_(<<>>, "error", FALSE, FALSE, 0)

\* StreamingSTTService._on_error of service id: _on_stt_error creates the
\* _handle_stt_error task, which sends the stt_error frame
SttError(id) ==
    /\ id \in DOMAIN stt
    /\ stt[id] \in {"open", "closing"}
    /\ nresults < MaxTranscripts
    /\ nresults' = nresults + 1
    /\ last_result' = ErrorResult
    /\ Emit(<<RxFrame("stt_error")>>)
    /\ UNCHANGED <<phase, self, router_params, stt, stt_in, rx, tasks, ntasks,
                   nmsgs, last_msg, edge_stopped, interrupted>>

\* disconnect(), "Cleanup services": close_stream returns at once when the
\* service is not connected, and otherwise sends CloseStream and sleeps
CleanupServices(c) ==
    IF c.stt_service # 0 /\ stt[c.stt_service] = "open"
    THEN /\ stt' = [stt EXCEPT ![c.stt_service] = "closing"]
         /\ self' = c
         /\ rx' = [pc |-> "disc_closing", cont |-> "none", id |-> c.stt_service]
    ELSE /\ stt' = stt
         /\ self' = [c EXCEPT !.stt_service = 0, !.tts_service = FALSE,
                              !.voice_router = FALSE]
         /\ rx' = [pc |-> "idle", cont |-> "none", id |-> 0]

\* the transport closes and disconnect() runs up to its first await
ReceiveDisconnect ==
    /\ Inbound("disconnect")
    /\ phase' = "closed"
    /\ Emit(<<>>)
    /\ IF self.audio_streamer /\ self.is_streaming
       THEN /\ rx' = [pc |-> "disc_end_sent", cont |-> "none", id |-> 0]
            /\ UNCHANGED <<self, stt>>
       ELSE CleanupServices(self)
    /\ UNCHANGED <<router_params, stt_in, tasks, ntasks, nresults, last_result,
                   interrupted>>

\* disconnect() after "await self.audio_streamer.send_audio_end()"
DisconnectEndSent ==
    /\ rx.pc = "disc_end_sent"
    /\ CleanupServices([self EXCEPT !.is_streaming = FALSE])
    /\ Emit(<<>>)
    /\ UNCHANGED <<phase, router_params, stt_in, tasks, ntasks, nresults,
                   last_result, nmsgs, last_msg, edge_stopped, interrupted>>

\* disconnect() after "await self.stt_service.close_stream()"
DisconnectClosed ==
    /\ rx.pc = "disc_closing"
    /\ stt' = [stt EXCEPT ![rx.id] = "closed"]
    /\ self' = [self EXCEPT !.stt_service = 0, !.tts_service = FALSE,
                            !.voice_router = FALSE]
    /\ rx' = [pc |-> "idle", cont |-> "none", id |-> 0]
    /\ Emit(<<>>)
    /\ UNCHANGED <<phase, router_params, stt_in, tasks, ntasks, nresults,
                   last_result, nmsgs, last_msg, edge_stopped, interrupted>>

Others ==
    <<phase, router_params, stt_in, rx, ntasks, nresults, last_result, nmsgs,
      last_msg, edge_stopped>>

\* _process_transcript up to "Send transcript to client"
TaskSendTranscript(t) ==
    /\ tasks[t].pc = "created"
    /\ Commit(t, [Send(World(t), Frame("transcript", t, tasks[t].text))
                     EXCEPT !.tk.pc = "update"])
    /\ UNCHANGED Others

\* _process_transcript after the transcript frame
TaskUpdate(t) ==
    /\ tasks[t].pc = "update"
    /\ Commit(t, UpdateTranscript(World(t), t))
    /\ UNCHANGED Others

\* _process_transcript after the intent_detected frame
TaskTrigger(t) ==
    /\ tasks[t].pc = "trigger"
    /\ Commit(t, TriggerResponse(World(t), t))
    /\ UNCHANGED Others

\* _stop_audio_input after "await self.stt_service.close_stream()"
TaskCloseDone(t) ==
    /\ tasks[t].pc = "closing"
    /\ LET w == World(t)
       IN Commit(t, [Send([w EXCEPT !.stt[w.tk.stt_id] = "closed",
                                    !.self.stt_service = 0],
                          Frame("audio_input_stopped", t, <<>>))
                        EXCEPT !.tk.pc = "gen"])
    /\ UNCHANGED Others

\* _generate_response after the audio_input_stopped frame
TaskGenerate(t) ==
    /\ tasks[t].pc = "gen"
    /\ Commit(t, generate_response(World(t), t))
    /\ UNCHANGED Others

\* stream_response after "await self._quick_route(transcript)": the route
\* chunk, which _generate_response turns into a route_decision frame
TaskRouted(t, decision) ==
    /\ tasks[t].pc = "routing"
    /\ Commit(t, RouteDecided(World(t), t, decision))
    /\ UNCHANGED Others

\* stream_response, the agent branch: the agent's answer is one complete chunk
TaskAgentAnswers(t, response, n) ==
    /\ tasks[t].pc = "pull"
    /\ tasks[t].rpc = "agent"
    /\ Commit(t, ProcessComplete(World(t), t, response, n))
    /\ UNCHANGED Others

\* stream_response, the agent branch: execute raised, fall back to the LLM
TaskAgentFails(t) ==
    /\ tasks[t].pc = "pull"
    /\ tasks[t].rpc = "agent"
    /\ Commit(t, [World(t) EXCEPT !.tk.rpc = "llm"])
    /\ UNCHANGED Others

\* _stream_direct_response: the LLM yields a chunk with content
TaskLlmToken(t, content, n) ==
    /\ tasks[t].pc = "pull"
    /\ tasks[t].rpc = "llm"
    /\ Len(tasks[t].llm_tokens) < MaxTokens
    /\ Commit(t, ProcessToken([World(t) EXCEPT !.tk.llm_tokens = Append(@, content)],
                              t, content, n))
    /\ UNCHANGED Others

\* _stream_direct_response: the LLM stream ends, the complete chunk carries
\* the router's own concatenation of the tokens
TaskLlmEnd(t, n) ==
    /\ tasks[t].pc = "pull"
    /\ tasks[t].rpc = "llm"
    /\ Commit(t, ProcessComplete(World(t), t, Concat(tasks[t].llm_tokens), n))
    /\ UNCHANGED Others

\* _stream_direct_response: the LLM stream raised, the error chunk
TaskLlmError(t) ==
    /\ tasks[t].pc = "pull"
    /\ tasks[t].rpc = "llm"
    /\ Commit(t, ProcessError(World(t), t))
    /\ UNCHANGED Others

\* _stream_text_chunk after an awaited send of audio_start or of an audio chunk
TaskTtsLoop(t) ==
    /\ tasks[t].pc = "tts_loop"
    /\ Commit(t, TtsLoop(World(t), t))
    /\ UNCHANGED Others

\* _stream_text_chunk after the awaited send of the silence padding
TaskTtsPadded(t) ==
    /\ tasks[t].pc = "tts_padded"
    /\ Commit(t, StreamTextChunkExcept(World(t), t))
    /\ UNCHANGED Others

\* the session as the code runs it
Next ==
    \/ \E n \in 0..1 : Connect(n)
    \/ ReceiveStartAudioInput
    \/ ReceiveStopAudioInput
    \/ ReceiveInterrupt
    \/ ReceiveAudioChunk
    \/ InterruptReset
    \/ \E ok \in BOOLEAN : SttStartReturns(ok)
    \/ \E id \in 1..MaxClientMsgs,
           r \in (IF GenerateResponseKwargs \subseteq router_params
                  THEN StreamSttResults ELSE SttResults) : SttResult(id, r)
    \/ \E id \in 1..MaxClientMsgs : SttError(id)
    \/ ReceiveDisconnect
    \/ DisconnectClosed
    \/ \E t \in 1..MaxTranscripts :
        \/ TaskSendTranscript(t)
        \/ TaskUpdate(t)
        \/ TaskTrigger(t)
        \/ TaskCloseDone(t)
        \/ TaskGenerate(t)

Spec == Init /\ [][Next]_vars

\* The response streamer.  Under Spec the call of stream_response raises, so
\* no response reaches the router, the LLM or the TTS.  StreamSpec is the same
\* session with a voice router whose stream_response takes the keywords
\* _generate_response passes: the code of _generate_response,
\* _stream_text_chunk and _handle_interrupt past that call
InitStream ==
    InitCommon /\ router_params = StreamResponseParams \cup GenerateResponseKwargs

NextStream ==
    \/ Next
    \/ InterruptSendInterrupted
    \/ DisconnectEndSent
    \/ \E t \in 1..MaxTranscripts :
        \/ \E d \in {"AGENT", "DIRECT"} : TaskRouted(t, d)
        \/ \E r \in AgentResponses, n \in 0..MaxTtsChunks : TaskAgentAnswers(t, r, n)
        \/ TaskAgentFails(t)
        \/ \E c \in Tokens, n \in 0..MaxTtsChunks : TaskLlmToken(t, c, n)
        \/ \E n \in 0..MaxTtsChunks : TaskLlmEnd(t, n)
        \/ TaskLlmError(t)
        \/ TaskTtsLoop(t)
        \/ TaskTtsPadded(t)

StreamSpec == InitStream /\ [][NextStream]_vars

\* ------------------------------------------------------- the AudioStreamer
\* AudioStreamer.stream_audio, AudioStreamer.stream_audio_bytes and
\* AudioWebSocketHelper.text_to_speech_stream, each on a streamer of its own,
\* with a send_stop_playback that another coroutine may run meanwhile.  The
\* audio source (the async iterator, the chunker, the generator of the TTS
\* service) yields its chunks and then ends or raises.

StreamerMethods == {"stream_audio", "stream_audio_bytes", "text_to_speech_stream"}

\* a chunk of PCM bytes, or an empty one
Chunks == {"pcm", "empty"}
Sources == UNION {[1..n -> Chunks] : n \in 0..MaxSourceChunks}

\* the call: its method, its audio source and its send_start and send_end
\* arguments (text_to_speech_stream has none and sends both)
InitAudio ==
    /\ InitSession
    /\ router_params = StreamResponseParams
    /\ InitEdge
    /\ InitCapture
    /\ InitLink
    /\ wire = <<>>
    /\ \E m \in StreamerMethods, src \in Sources, r, ss, se \in BOOLEAN :
          /\ m = "text_to_speech_stream" => (ss /\ se)
          /\ streamer = [StreamerInit EXCEPT !.call = m, !.pc = "entry",
                                             !.source = src, !.raises = r,
                                             !.send_start = ss, !.send_end = se]

\* the entry of the call up to the awaited send of audio_start
StreamBegin ==
    /\ streamer.pc = "entry"
    /\ IF streamer.send_start
       THEN /\ wire' = Append(wire, "audio_start")
            /\ streamer' = [streamer EXCEPT !.pc = "start_sent"]
       ELSE /\ wire' = wire
            /\ streamer' = [streamer EXCEPT !.stop_requested = FALSE,
                                            !.pc = "loop"]
    /\ UNCHANGED <<session, edge, capture, link>>

\* send_audio_start after its send, and in stream_audio and
\* stream_audio_bytes "self._stop_requested = False"
StreamStarted ==
    /\ streamer.pc = "start_sent"
    /\ streamer' = [streamer EXCEPT
            !.is_streaming = TRUE,
            !.stop_requested =
                IF streamer.call = "text_to_speech_stream" THEN @ ELSE FALSE,
            !.pc = "loop"]
    /\ UNCHANGED <<session, edge, capture, link, wire>>

\* after the loop: audio_end, which stream_audio and stream_audio_bytes send
\* "if send_end and not self._stop_requested"
StreamEnd(st) ==
    IF st.call = "text_to_speech_stream" \/ (st.send_end /\ ~st.stop_requested)
    THEN /\ wire' = Append(wire, "audio_end")
         /\ streamer' = [st EXCEPT !.pc = "end_sent"]
    ELSE /\ wire' = wire
         /\ streamer' = [st EXCEPT !.pc = "returned"]

\* one turn of the loop over the audio source.  A source that raises takes
\* the call to its except branch, which re-raises (stream_audio and
\* stream_audio_bytes reset _is_streaming first); send_audio_chunk and
\* text_to_speech_stream drop an empty chunk
StreamNext ==
    /\ streamer.pc = "loop"
    /\ IF streamer.source = <<>>
       THEN IF streamer.raises
            THEN /\ wire' = wire
                 /\ streamer' = [streamer EXCEPT
                        !.is_streaming =
                            IF streamer.call = "text_to_speech_stream"
                            THEN @ ELSE FALSE,
                        !.pc = "raised"]
            ELSE StreamEnd(streamer)
       ELSE IF streamer.call # "text_to_speech_stream" /\ streamer.stop_requested
       THEN StreamEnd([streamer EXCEPT !.source = <<>>])
       ELSE /\ wire' = IF Head(streamer.source) = "pcm"
                       THEN Append(wire, "audio") ELSE wire
            /\ streamer' = [streamer EXCEPT !.source = Tail(@)]
    /\ UNCHANGED <<session, edge, capture, link>>

\* send_audio_end after its send
StreamEnded ==
    /\ streamer.pc = "end_sent"
    /\ streamer' = [streamer EXCEPT !.is_streaming = FALSE, !.pc = "returned"]
    /\ UNCHANGED <<session, edge, capture, link, wire>>

\* send_stop_playback up to its awaited send, while the call is suspended
StopPlaybackSend ==
    /\ streamer.pc \in {"start_sent", "loop", "end_sent"}
    /\ streamer.stop_pc = "none"
    /\ wire' = Append(wire, "stop_playback")
    /\ streamer' = [streamer EXCEPT !.stop_pc = "sent"]
    /\ UNCHANGED <<session, edge, capture, link>>

\* send_stop_playback after its send.  AudioWebSocketHelper.stop_playback
\* runs it on a temporary streamer, so the one in text_to_speech_stream
\* keeps its flags
StopPlaybackSent ==
    /\ streamer.stop_pc = "sent"
    /\ streamer' =
          IF streamer.call = "text_to_speech_stream"
          THEN [streamer EXCEPT !.stop_pc = "done"]
          ELSE [streamer EXCEPT !.stop_requested = TRUE, !.is_streaming = FALSE,
                                !.stop_pc = "done"]
    /\ UNCHANGED <<session, edge, capture, link, wire>>

NextAudio ==
    \/ StreamBegin
    \/ StreamStarted
    \/ StreamNext
    \/ StreamEnded
    \/ StopPlaybackSend
    \/ StopPlaybackSent

AudioSpec == InitAudio /\ [][NextAudio]_vars

\* ---------------------------------------------------- the playback engine

\* Every chunk the edge feeds is chunk_size bytes of PCM, so AudioBuffer.pop_chunk
\* returns the chunks as they were pushed; a chunk is named by the session
\* that fed it and its number in that session.  An uncontended asyncio.Lock
\* never suspends, so the methods of AudioBuffer are single steps, and the
\* playback task is suspended only in asyncio.sleep, wait_for_data and the
\* executor's write.

Entry(op, chunk, fade) == [op |-> op, chunk |-> chunk, fade |-> fade]

\* the player's part of the state, as one record; now is the number of the
\* session begun last, which the entries of an open and a close carry
Edge ==
    [player |-> player, ploop |-> ploop, device |-> device,
     now |-> [session |-> caller.sessions, n |-> 0]]

Suspend(e, pc) == [e EXCEPT !.ploop.pc = pc]

\* _playback_loop, the IDLE branch up to asyncio.sleep(0.05)
IdleBranch(e) ==
    Suspend([e EXCEPT !.player.output_stream = FALSE,
                      !.device = IF e.player.output_stream
                                 THEN Append(@, Entry("close", e.now, "none"))
                                 ELSE @],
            "idle_sleep")

\* _playback_loop after _drain_buffer_with_fadeout returned: state = IDLE,
\* continue
AfterDrain(e) ==
    IdleBranch([e EXCEPT !.player.state = "IDLE", !.ploop.last_chunk = NoChunk,
                         !.ploop.popped = NoChunk, !.ploop.chunk = NoChunk,
                         !.ploop.fade = "none"])

\* _drain_buffer_with_fadeout after its loop: the last chunk gets the fade-out
DrainFade(e) ==
    IF e.ploop.last_chunk # NoChunk
    THEN Suspend([e EXCEPT !.ploop.chunk = e.ploop.last_chunk,
                           !.ploop.fade = "out"],
                 "drain_fade_writing")
    ELSE AfterDrain(e)

\* _drain_buffer_with_fadeout, its "while True" up to the next write
RECURSIVE DrainLoop(_)
DrainLoop(e) ==
    IF e.player.buffer = <<>>
    THEN DrainFade(e)
    ELSE LET chunk == Head(e.player.buffer)
             e1 == [e EXCEPT !.player.buffer = Tail(@)]
         IN  IF e.ploop.last_chunk # NoChunk
             THEN Suspend([e1 EXCEPT !.ploop.chunk = e.ploop.last_chunk,
                                     !.ploop.fade = "none",
                                     !.ploop.popped = chunk],
                          "drain_writing")
             ELSE DrainLoop([e1 EXCEPT !.ploop.last_chunk = chunk])

\* _drain_buffer_with_fadeout from its entry
DrainBuffer(e) ==
    IF ~e.player.output_stream
    THEN AfterDrain(e)
    ELSE DrainLoop([e EXCEPT !.ploop.last_chunk = NoChunk])

\* a PLAYING branch that takes the newest chunk of the buffer
PlayingBranchNewestFirst(e) ==
    IF ~e.player.session_active
    THEN DrainBuffer(e)
    ELSE IF e.player.buffer = <<>>
    THEN Suspend(e, "play_wait")
    ELSE Suspend([e EXCEPT !.player.buffer = SubSeq(@, 1, Len(@) - 1),
                           !.player.first_chunk = FALSE,
                           !.ploop.chunk =
                               e.player.buffer[Len(e.player.buffer)],
                           !.ploop.fade = IF e.player.first_chunk
                                          THEN "in" ELSE "none"],
                 "writing")

\* a PLAYING branch that gives the device up when the buffer runs empty
PlayingBranchClosingWhenEmpty(e) ==
    IF ~e.player.session_active
    THEN DrainBuffer(e)
    ELSE IF e.player.buffer = <<>>
    THEN IdleBranch([e EXCEPT !.player.state = "IDLE"])
    ELSE Suspend([e EXCEPT !.player.buffer = Tail(@),
                           !.player.first_chunk = FALSE,
                           !.ploop.chunk = Head(e.player.buffer),
                           !.ploop.fade = IF e.player.first_chunk
                                          THEN "in" ELSE "none"],
                 "writing")

\* _playback_loop, the PLAYING branch up to its next suspension
PlayingBranch(e) ==
    IF ~e.player.session_active
    THEN DrainBuffer(e)
    ELSE IF e.player.buffer = <<>>
    THEN Suspend(e, "play_wait")
    ELSE Suspend([e EXCEPT !.player.buffer = Tail(@),
                           !.player.first_chunk = FALSE,
                           !.ploop.chunk = Head(e.player.buffer),
                           !.ploop.fade = IF e.player.first_chunk
                                          THEN "in" ELSE "none"],
                 "writing")

\* _playback_loop, the BUFFERING branch
BufferingBranch(e) ==
    IF Len(e.player.buffer) >= BufferingChunks
    THEN PlayingBranch([e EXCEPT !.player.state = "PLAYING",
                                 !.player.output_stream = TRUE,
                                 !.device = IF e.player.output_stream
                                            THEN @
                                            ELSE Append(@, Entry("open", e.now,
                                                                 "none"))])
    ELSE Suspend(e, "buf_wait")

\* one pass of "while not self._stop_event.is_set()" up to its suspension
Iterate(e) ==
    CASE e.player.state = "IDLE" -> IdleBranch(e)
      [] e.player.state = "BUFFERING" -> BufferingBranch(e)
      [] e.player.state = "PLAYING" -> PlayingBranch(e)

\* the playback task goes on to e
Resume(e) ==
    /\ player' = e.player
    /\ ploop' = e.ploop
    /\ device' = e.device
    /\ UNCHANGED <<session, helper, capture, link>>

\* the output device took the chunk in flight
Written(e) ==
    [e EXCEPT !.device = Append(@, Entry("write", e.ploop.chunk, e.ploop.fade))]

\* the output device may refuse a write
WriteOutcome(ok) ==
    IF ok
    THEN caller' = caller
    ELSE /\ caller.write_errors < MaxWriteErrors
         /\ caller' = [caller EXCEPT !.write_errors = @ + 1]

\* the task starts, or wait_for_data returned
LoopWake ==
    /\ ploop.pc \in {"top", "buf_wait", "play_wait"}
    /\ Resume(Iterate(Edge))
    /\ UNCHANGED caller

\* asyncio.sleep(0.05) of the IDLE branch is over
LoopIdleWake ==
    /\ ploop.pc = "idle_sleep"
    /\ Resume(Iterate([Edge EXCEPT !.player.state =
                           IF player.session_active THEN "BUFFERING" ELSE @]))
    /\ UNCHANGED caller

\* the write of the PLAYING branch returned or raised
LoopWritten ==
    \E ok \in BOOLEAN :
        /\ ploop.pc = "writing"
        /\ WriteOutcome(ok)
        /\ Resume(Iterate(IF ok THEN Written(Edge)
                          ELSE [Edge EXCEPT !.player.state = "IDLE"]))

\* a write inside the drain's loop returned or raised
DrainWritten ==
    \E ok \in BOOLEAN :
        /\ ploop.pc = "drain_writing"
        /\ WriteOutcome(ok)
        /\ Resume(IF ok
                  THEN DrainLoop([Written(Edge) EXCEPT
                                      !.ploop.last_chunk = ploop.popped])
                  ELSE DrainFade(Edge))

\* the write of the faded-out chunk returned or raised
DrainFadeWritten ==
    \E ok \in BOOLEAN :
        /\ ploop.pc = "drain_fade_writing"
        /\ WriteOutcome(ok)
        /\ Resume(AfterDrain(IF ok THEN Written(Edge) ELSE Edge))

\* begin_session after its "if self._session_active" block
Begun(p) ==
    [p EXCEPT !.buffer = <<>>, !.state = "IDLE", !.session_active = TRUE,
              !.first_chunk = TRUE]

\* end_session finds the buffer nearly empty, or gives up after 20 looks
Drained(p) == Len(p.buffer) < DrainedChunks

\* the caller changes the player and the task is left where it is
Called(p, c) ==
    /\ player' = p
    /\ caller' = c
    /\ UNCHANGED <<ploop, device, session, helper, capture, link>>

\* the caller's record of a session that has begun
Started(c) ==
    [c EXCEPT !.pc = "none", !.sessions = @ + 1, !.fed = 0,
              !.ended_with = <<>>, !.last = "begin_session"]

\* begin_session(); a session still active is ended first
BeginSession ==
    /\ caller.pc = "none"
    /\ caller.sessions < MaxSessions
    /\ IF player.session_active /\ ~Drained(player)
       THEN Called([player EXCEPT !.session_active = FALSE],
                   [caller EXCEPT !.pc = "begin_end_wait",
                                  !.last = "begin_session"])
       ELSE Called(Begun(player), Started(caller))

\* AudioBuffer.push finds no room for one more chunk
Full(p) == Len(p.buffer) + 1 > MaxSize

\* the caller's record of a feed that the buffer took or refused
Fed(ok) ==
    [caller EXCEPT !.fed = @ + 1, !.last = "feed", !.fed_ok = ok,
                   !.peak[caller.sessions] =
                       IF ok /\ Len(player.buffer) + 1 > @
                       THEN Len(player.buffer) + 1 ELSE @]

\* a feed that makes room by dropping the oldest chunk
FeedDroppingOldest ==
    /\ caller.pc = "none"
    /\ player.session_active
    /\ caller.fed < MaxChunks
    /\ Called([player EXCEPT !.buffer =
                   Append(IF Full(player) THEN Tail(@) ELSE @,
                          [session |-> caller.sessions, n |-> caller.fed + 1])],
              Fed(TRUE))

\* feed(pcm_bytes) with a chunk of PCM, in an active session; push refuses
\* the chunk when it does not fit
Feed ==
    /\ caller.pc = "none"
    /\ player.session_active
    /\ caller.fed < MaxChunks
    /\ IF Full(player)
       THEN Called(player, Fed(FALSE))
       ELSE Called([player EXCEPT !.buffer =
                        Append(@, [session |-> caller.sessions,
                                   n |-> caller.fed + 1])],
                   Fed(TRUE))

\* end_session() up to its first asyncio.sleep(0.1), or to its end
EndSession ==
    /\ caller.pc = "none"
    /\ player.session_active
    /\ IF Drained(player)
       THEN Called([player EXCEPT !.session_active = FALSE, !.state = "IDLE"],
                   [caller EXCEPT !.ended_with = player.buffer,
                                  !.last = "end_session"])
       ELSE Called([player EXCEPT !.session_active = FALSE],
                   [caller EXCEPT !.pc = "end_wait",
                                  !.ended_with = player.buffer,
                                  !.last = "end_session"])

\* end_session() leaves its wait: the buffer has drained or the 20 looks are
\* used up; begin_session goes on from there
EndSessionWake ==
    /\ caller.pc \in {"end_wait", "begin_end_wait"}
    /\ \E timeout \in BOOLEAN :
        /\ Drained(player) \/ timeout
        /\ LET p == [player EXCEPT !.state = "IDLE"]
           IN  IF caller.pc = "begin_end_wait"
               THEN Called(Begun(p), Started(caller))
               ELSE Called(p, [caller EXCEPT !.pc = "none",
                                             !.last = "end_session"])

\* interrupt(), called by the wake word controller
Interrupt ==
    /\ caller.interrupts < MaxInterrupts
    /\ Called([player EXCEPT !.session_active = FALSE, !.buffer = <<>>,
                             !.state = "IDLE"],
              [caller EXCEPT !.interrupts = @ + 1, !.last = "interrupt",
                             !.cut = @ \cup {player.buffer[i] :
                                                i \in DOMAIN player.buffer}])

NextPlayer ==
    \/ LoopWake
    \/ LoopIdleWake
    \/ LoopWritten
    \/ DrainWritten
    \/ DrainFadeWritten
    \/ BeginSession
    \/ Feed
    \/ EndSession
    \/ EndSessionWake
    \/ Interrupt

\* the playback engine on its own
InitPlayer ==
    /\ InitSession
    /\ router_params = StreamResponseParams
    /\ streamer = StreamerInit
    /\ wire = <<>>
    /\ InitEdge
    /\ InitCapture
    /\ InitLink

PlayerSpec == InitPlayer /\ [][NextPlayer]_vars

\* ------------------------------------------------- the capture controller

\* The processing task reads one microphone chunk per pass of its loop and is
\* suspended in the sends of the transport and in the sleep(0) that ends the
\* pass.  A send raises when the transport is down (WebSocketClient.send_text
\* and send_binary) and is written to the socket in the order of the calls.
\* The clock is the moment the listening timeout of the running capture is
\* reached; the LED client swallows its errors.  use_relative_silence has its
\* default, True.

\* the controller's part of the state, as one record
Capture == [ctl |-> ctl, uplink |-> uplink]

\* an entry of uplink: the capture it belongs to, whether the chunk was read
\* after the deadline, and whether the wake word came during playback
Message(c, msg) ==
    [msg |-> msg, session |-> c.sessions, late |-> c.late, barge |-> c.barge]

\* the task calls ws_client.send_text or send_binary and is suspended in it
Issue(w, msg, cont) ==
    [w EXCEPT !.uplink = IF w.ctl.up THEN Append(@, Message(w.ctl, msg)) ELSE @,
              !.ctl.pc = "sending", !.ctl.cont = cont, !.ctl.sent_ok = w.ctl.up]

\* the handler of the chunk returned; the loop is in its sleep(0)
HandlerDone(w) == [w EXCEPT !.ctl.pc = "idle", !.ctl.cont = "none"]

\* _stop_streaming up to its send
StopStreaming(w, why) ==
    IF ~w.ctl.is_streaming
    THEN HandlerDone(w)
    ELSE Issue([w EXCEPT !.ctl.is_streaming = FALSE, !.ctl.timing = FALSE,
                         !.ctl.reason = why],
               "stop_audio_input", "after_stop")

\* _stop_streaming after its send, which returned or raised
AfterStop(w, ok) ==
    IF ok
    THEN HandlerDone([w EXCEPT !.ctl.is_speaking = FALSE,
                               !.ctl.silence_chunk_count = 0,
                               !.ctl.window = <<>>,
                               !.ctl.baseline = 0,
                               !.ctl.listening = TRUE,
                               !.ctl.late = FALSE])
    ELSE HandlerDone([w EXCEPT !.ctl.late = FALSE])

\* _start_streaming up to its send
StartStreaming(w) ==
    IF w.ctl.is_streaming
    THEN HandlerDone(w)
    ELSE Issue([w EXCEPT !.ctl.sessions = @ + 1,
                         !.ctl.baseline = w.ctl.sessions + 1,
                         !.ctl.is_speaking = FALSE,
                         !.ctl.silence_chunk_count = 0,
                         !.ctl.window = <<>>,
                         !.ctl.listening = FALSE,
                         !.ctl.late = FALSE,
                         !.ctl.reason = "none"],
               "start_audio_input", "after_start")

\* a _start_streaming that counts the capture as started whatever its send did
AfterStartStreamingAnyway(w, ok) ==
    HandlerDone([w EXCEPT !.ctl.is_streaming = TRUE, !.ctl.timing = TRUE])

\* _start_streaming after its send, which returned or raised
AfterStart(w, ok) ==
    IF ok
    THEN HandlerDone([w EXCEPT !.ctl.is_streaming = TRUE, !.ctl.timing = TRUE])
    ELSE HandlerDone([w EXCEPT !.ctl.is_streaming = FALSE])

\* _handle_listening_chunk after _send_interrupt, which swallows what the send
\* raises: the player is interrupted, then the capture starts
AfterInterrupt(w) ==
    StartStreaming([w EXCEPT !.uplink = Append(@, Message(w.ctl,
                                                          "player_interrupt")),
                             !.ctl.is_playing_response = FALSE,
                             !.ctl.response = "none"])

\* _handle_listening_chunk; wake says that the chunk completes the wake word
HandleListeningChunk(w, wake) ==
    IF w.ctl.listening /\ wake
    THEN LET w1 == [w EXCEPT !.ctl.barge = (w.ctl.response # "none")]
         IN  IF w.ctl.is_playing_response
             THEN Issue(w1, "interrupt", "after_interrupt")
             ELSE StartStreaming(w1)
    ELSE HandlerDone(w)

\* the last silence_chunks_needed chunks of those that process was given
Recent(s) ==
    IF Len(s) > SilenceChunksNeeded
    THEN SubSeq(s, Len(s) - SilenceChunksNeeded + 1, Len(s))
    ELSE s

\* SilenceDetector.process; the energy of the chunk is low (under the silence
\* threshold), high (over the speech threshold) or mid
Process(c, level) ==
    LET c1 == [c EXCEPT !.window = Recent(Append(@, level))] IN
    CASE level = "low" ->
             [c1 EXCEPT !.silence_chunk_count = @ + 1,
                        !.is_speaking =
                            IF c.silence_chunk_count + 1 >= SilenceChunksNeeded
                            THEN FALSE ELSE @]
      [] level = "high" ->
             [c1 EXCEPT !.silence_chunk_count = 0, !.is_speaking = TRUE]
      [] OTHER -> c1

\* process returned SpeechEvent.SPEECH_ENDED
SpeechEnded(c, level) ==
    /\ level = "low"
    /\ c.is_speaking
    /\ c.silence_chunk_count + 1 >= SilenceChunksNeeded

\* _handle_streaming_chunk after send_binary, which returned or raised
AfterAudio(w, ok) ==
    IF ~ok
    THEN StopStreaming(w, "error")
    ELSE LET w1 == [w EXCEPT !.ctl = Process(w.ctl, w.ctl.level)]
         IN  IF SpeechEnded(w.ctl, w.ctl.level)
             THEN StopStreaming(w1, "silence")
             ELSE HandlerDone(w1)

\* a _handle_streaming_chunk that sends the chunk without looking at the time
HandleStreamingChunkUntimed(w, level) ==
    Issue([w EXCEPT !.ctl.level = level], "audio", "after_audio")

\* _handle_streaming_chunk up to its first send
HandleStreamingChunk(w, level) ==
    IF w.ctl.timing /\ w.ctl.late
    THEN StopStreaming(w, "timeout")
    ELSE Issue([w EXCEPT !.ctl.level = level], "audio", "after_audio")

\* the controller goes on to w
Goes(w) ==
    /\ ctl' = w.ctl
    /\ uplink' = w.uplink
    /\ UNCHANGED <<session, helper, edge, link>>

\* something around the controller changes
Around(c) ==
    /\ ctl' = c
    /\ UNCHANGED <<uplink, session, helper, edge, link>>

\* _processing_loop: the microphone yields a chunk and the loop hands it to
\* one of the two handlers
MicChunk ==
    /\ ctl.pc = "idle"
    /\ ctl.is_running
    /\ ctl.mic < MaxMicChunks
    /\ LET w == [Capture EXCEPT !.ctl.mic = @ + 1]
       IN  IF ctl.is_streaming
           THEN \E level \in {"low", "mid", "high"} :
                    Goes(HandleStreamingChunk(w, level))
           ELSE \E wake \in BOOLEAN :
                    /\ wake => ctl.sessions < MaxCaptures
                    /\ Goes(HandleListeningChunk(w, wake))

\* the send the task is suspended in returns or raises
SendReturns ==
    /\ ctl.pc = "sending"
    /\ Goes(CASE ctl.cont = "after_interrupt" -> AfterInterrupt(Capture)
              [] ctl.cont = "after_start" -> AfterStart(Capture, ctl.sent_ok)
              [] ctl.cont = "after_audio" -> AfterAudio(Capture, ctl.sent_ok)
              [] ctl.cont = "after_stop" -> AfterStop(Capture, ctl.sent_ok))

\* the protocol handler starts playing a response of the server
ResponsePlays ==
    /\ ctl.response = "none"
    /\ ctl.up
    /\ ctl.sessions > 0
    /\ ctl.responses < MaxResponses
    /\ Around([ctl EXCEPT !.response = "playing", !.responses = @ + 1])

\* _handle_server_message with the response_complete of the response that is
\* playing
ResponseComplete ==
    /\ ctl.response = "playing"
    /\ ctl.up
    /\ Around([ctl EXCEPT !.is_playing_response = FALSE,
                          !.response = "complete"])

\* the player has played the response to its end
PlaybackEnds ==
    /\ ctl.response = "complete"
    /\ Around([ctl EXCEPT !.response = "none"])

\* the transport loses its connection
LinkDrops ==
    /\ ctl.up
    /\ ctl.drops < MaxDrops
    /\ Around([ctl EXCEPT !.up = FALSE, !.drops = @ + 1])

\* the transport is connected again
LinkReturns ==
    /\ ~ctl.up
    /\ Around([ctl EXCEPT !.up = TRUE])

\* listening_timeout_seconds have passed since the capture started
Deadline ==
    /\ ctl.timing
    /\ ~ctl.late
    /\ Around([ctl EXCEPT !.late = TRUE])

\* stop(): a running capture is stopped, then the task is cancelled, in its
\* sleep(0) or in the send it is suspended in
ControllerStop ==
    /\ ctl.is_running
    /\ LET w == [Capture EXCEPT !.ctl.is_running = FALSE]
       IN  Goes([AfterStop(StopStreaming(w, "stop"), ctl.up)
                     EXCEPT !.ctl.pc = "stopped"])

NextCapture ==
    \/ MicChunk
    \/ SendReturns
    \/ ResponsePlays
    \/ ResponseComplete
    \/ PlaybackEnds
    \/ LinkDrops
    \/ LinkReturns
    \/ Deadline
    \/ ControllerStop

\* the capture controller on its own
InitController ==
    /\ InitSession
    /\ router_params = StreamResponseParams
    /\ streamer = StreamerInit
    /\ wire = <<>>
    /\ InitEdge
    /\ InitCapture
    /\ InitLink

CaptureSpec == InitController /\ [][NextCapture]_vars

\* ------------------------------------------------- the transport of the edge
\*
\* The connection task of the WebSocketClient is suspended in
\* websockets.connect ("connecting"), in _receive_loop ("receiving") or in the
\* sleep of the backoff ("sleeping"); it has ended after giving up
\* ("stopped") or after close() ("closed"). on_connect and on_disconnect of
\* the edge are plain functions, so the callbacks do not suspend the task.

RECURSIVE Pow2(_)
Pow2(k) == IF k = 0 THEN 1 ELSE 2 * Pow2(k - 1)

Min(a, b) == IF a < b THEN a ELSE b

\* a _calculate_retry_delay that counts the attempt that has just failed
CalculateRetryDelayCountingThisOne(c) ==
    Min(InitialRetryDelay * Pow2(c.retry_count + 1), MaxRetryDelay)

\* _calculate_retry_delay
CalculateRetryDelay(c) ==
    Min(InitialRetryDelay * Pow2(c.retry_count), MaxRetryDelay)

\* a give-up test that allows one retry more
GivesUpOneLater(c) ==
    c.max_retries > 0 /\ c.retry_count > c.max_retries

\* "if self.max_retries > 0 and self._retry_count >= self.max_retries"
GivesUp(c) ==
    c.max_retries > 0 /\ c.retry_count >= c.max_retries

\* the transport changes to c
Link(c) ==
    /\ client' = c
    /\ UNCHANGED <<session, helper, edge, capture, handler>>

\* connect()
ClientConnect ==
    /\ ~client.running
    /\ client.connects < MaxConnects
    /\ Link([client EXCEPT !.running = TRUE, !.retry_count = 0,
                           !.pc = "connecting", !.connects = @ + 1,
                           !.fails = 0])

\* _connection_loop: websockets.connect returns a connection
AttemptSucceeds ==
    /\ client.pc = "connecting"
    /\ client.attempts < MaxAttempts
    /\ Link([client EXCEPT !.ws = "open", !.retry_count = 0,
                           !.pc = "receiving", !.attempts = @ + 1,
                           !.fails = 0])

\* _connection_loop: websockets.connect raises, "except Exception"
AttemptFails ==
    /\ client.pc = "connecting"
    /\ client.attempts < MaxAttempts
    /\ LET c == [client EXCEPT !.ws = "None", !.disconnects = @ + 1,
                               !.attempts = @ + 1, !.fails = @ + 1]
       IN  IF GivesUp(c)
           THEN Link([c EXCEPT !.running = FALSE, !.pc = "stopped"])
           ELSE Link([c EXCEPT !.delay = CalculateRetryDelay(c),
                               !.retry_count = @ + 1,
                               !.pc = "sleeping"])

\* _connection_loop: the sleep of the backoff is over
SleepEnds ==
    /\ client.pc = "sleeping"
    /\ Link([client EXCEPT !.pc = "connecting"])

\* _receive_loop returns, after the server closed the connection or after an
\* error that it caught; the "async with" block is left without an exception
\* and the loop is at its "while self._running" again
ConnectionEnds ==
    /\ client.pc = "receiving"
    /\ Link([client EXCEPT !.ws = "closed", !.pc = "connecting"])

\* close()
ClientClose ==
    /\ client.pc \in {"connecting", "receiving", "sleeping"}
    /\ Link([client EXCEPT !.running = FALSE, !.ws = "None", !.pc = "closed"])

NextLink ==
    \/ ClientConnect
    \/ AttemptSucceeds
    \/ AttemptFails
    \/ SleepEnds
    \/ ConnectionEnds
    \/ ClientClose

\* the transport on its own, configured with one of the max_retries
InitTransport ==
    /\ InitSession
    /\ router_params = StreamResponseParams
    /\ streamer = StreamerInit
    /\ wire = <<>>
    /\ InitEdge
    /\ InitCapture
    /\ \E n \in MaxRetriesChoices : client = ClientInit(n)
    /\ handler = HandlerInit

LinkSpec == InitTransport /\ [][NextLink]_vars

\* --------------------------------------------- the edge as JinEdgeClient
\* --------------------------------------------- wires it
\*
\* JinEdgeClient gives the AudioStreamHandler the AudioBuffer of the
\* AudioPlayer; the handler pushes what it receives into that buffer and the
\* playback task of the player runs beside it. Nothing in this wiring calls
\* begin_session, feed or end_session.

\* the handler changes to h and the buffer of the player to b
Handled(h, b) ==
    /\ handler' = h
    /\ player' = [player EXCEPT !.buffer = b]
    /\ UNCHANGED <<session, helper, capture, client, ploop, caller, device>>

\* handle_json_message, audio_start with a stream id that is new
HandleAudioStart ==
    /\ handler.streams < MaxStreams
    /\ LET h == [handler EXCEPT !.streams = @ + 1,
                                !.active_stream_id = handler.streams + 1]
       IN  IF handler.active_stream_id # 0
           THEN Handled([h EXCEPT !.playback_started = FALSE], <<>>)
           ELSE Handled(h, player.buffer)

\* handle_binary_message with a frame that is not empty
HandleBinaryMessage ==
    /\ handler.frames < MaxFrames
    /\ LET h == [handler EXCEPT !.frames = @ + 1]
           starts == /\ ~handler.playback_started
                     /\ Len(player.buffer) >= PrebufferChunks
           h1 == IF starts
                 THEN [h EXCEPT !.playback_started = TRUE, !.filler = TRUE]
                 ELSE h
       IN  IF handler.active_stream_id = 0
           THEN Handled(h, player.buffer)
           ELSE IF Full(player)
           THEN Handled(h1, player.buffer)
           ELSE Handled(h1, Append(player.buffer,
                                   [session |-> handler.active_stream_id,
                                    n |-> handler.frames + 1]))

\* handle_json_message, audio_end of the active stream
HandleAudioEnd ==
    /\ handler.active_stream_id # 0
    /\ Handled([handler EXCEPT !.active_stream_id = 0,
                               !.playback_started = FALSE],
               player.buffer)

\* handle_json_message, stop_playback
HandleStopPlayback ==
    /\ handler.stops < MaxStops
    /\ Handled([handler EXCEPT !.stops = @ + 1, !.active_stream_id = 0,
                               !.playback_started = FALSE, !.filler = FALSE],
               <<>>)

\* _fill_silence: one pass of its loop that adds a chunk of silence
FillSilence ==
    /\ handler.filler
    /\ handler.fills < MaxFills
    /\ handler.active_stream_id # 0
    /\ Len(player.buffer) < PrebufferChunks
    /\ ~Full(player)
    /\ Handled([handler EXCEPT !.fills = @ + 1],
               Append(player.buffer,
                      [session |-> handler.active_stream_id, n |-> 0]))

\* the handler and the playback task. The player is never taken out of IDLE,
\* so the task reaches the sleep of its IDLE branch and every later pass of
\* its loop ends in the state it began in, which is no step.
NextWired ==
    \/ HandleAudioStart
    \/ HandleBinaryMessage
    \/ HandleAudioEnd
    \/ HandleStopPlayback
    \/ FillSilence
    \/ LoopWake

InitWired ==
    /\ InitSession
    /\ router_params = StreamResponseParams
    /\ streamer = StreamerInit
    /\ wire = <<>>
    /\ InitEdge
    /\ InitCapture
    /\ InitLink

\* the playback task is scheduled again and again
WiredSpec ==
    /\ InitWired
    /\ [][NextWired]_vars
    /\ WF_vars(LoopWake)

\* ------------------------------------------------------------------ claims

\* coroutine t wrote a frame of this type in the last step
Wrote(t, type) ==
    \E i \in DOMAIN sent : sent[i].task = t /\ sent[i].type = type

\* task t is between the entry of _generate_response and its end
Generating(t) == tasks[t].generated /\ tasks[t].pc # "done"

C3_ResponseComplete ==
    [][\A t \in 1..MaxTranscripts :
         /\ Wrote(t, "error")' => (tasks[t].pc = "pull" /\ tasks[t].rpc = "llm")
         /\ \A i \in DOMAIN sent' :
                (/\ sent'[i].task = t
                 /\ sent'[i].type = "response_complete"
                 /\ tasks[t].rpc = "llm")
                    => sent'[i].text = Concat(tasks[t].llm_tokens)]_vars

C5_OneGenerationPerText ==
    \A t \in 1..(MaxTranscripts - 1) :
        (/\ tasks[t].final_result
         /\ tasks[t + 1].final_result
         /\ tasks[t].text = tasks[t + 1].text)
            => ~(tasks[t].generated /\ tasks[t + 1].generated)

C7_NextTurnGenerates ==
    [][\A t \in 1..MaxTranscripts :
         (/\ tasks[t].pc = "update"
          /\ tasks'[t].pc # "update"
          /\ tasks[t].final_result
          /\ (tasks[t].speech_final \/ tasks[t].confidence > FinalConfidence)
          /\ Strip(tasks[t].text) # <<>>
          /\ self.response_start_time # 0
          /\ self.current_transcript = <<>>
          /\ self.is_receiving_audio
          /\ tasks[t].stt_src = self.stt_service
          /\ \A u \in 1..MaxTranscripts : ~Generating(u))
            => (tasks'[t].pc \in {"closing", "gen"} \/ tasks'[t].generated)]_vars

SecondStart ==
    /\ nmsgs' = nmsgs + 1
    /\ last_msg = "start_audio_input"
    /\ last_msg' = "start_audio_input"

EmptyFinal ==
    /\ nresults' = nresults + 1
    /\ last_result'.is_final
    /\ Strip(last_result'.text) = <<>>

Transcribing ==
    /\ self.is_receiving_audio
    /\ self.stt_service # 0
    /\ stt[self.stt_service] = "open"

\* the STT provider reports an error
SttErrorStep ==
    /\ nresults' = nresults + 1
    /\ last_result' = ErrorResult

\* C11: when the STT provider reports an error during transcribing, the server
\* writes an error frame and the session is idle afterwards: it no longer
\* receives audio and its STT stream is released.
C11_SttErrorIdle ==
    [][(SttErrorStep /\ Transcribing /\ phase = "open")
          => /\ Wrote(0, "stt_error")'
             /\ ~self'.is_receiving_audio
             /\ self'.stt_service = 0
             /\ stt'[self.stt_service] # "open"]_vars

\* the server has no step of its own left: the receive handler is idle and
\* every task has ended, so only the edge or a provider can act next
ServerQuiescent ==
    /\ rx.pc = "idle"
    /\ \A t \in 1..MaxTranscripts : tasks[t].pc \in {"unborn", "done"}

\* C12: after stop_audio_input the session reaches idle without the help of
\* the provider: once the server has no step left, it is not receiving audio
\* and its STT stream is closed and released.
C12_StopReachesIdle ==
    (last_msg = "stop_audio_input" /\ phase = "open" /\ ServerQuiescent)
        => /\ ~self.is_receiving_audio
           /\ self.stt_service = 0
           /\ \A id \in DOMAIN stt : stt[id] # "open"

\* the step in which "await self.stt_service.start_stream(...)" returns with
\* the provider stream open
SttOpens ==
    /\ rx.pc = "stt_starting"
    /\ stt[Len(stt)] = "new"
    /\ stt'[Len(stt)] = "open"

\* C13: a StreamingSTTService is created only by the step that handles an
\* audio chunk, never by start_audio_input, and when its provider stream opens
\* the chunks buffered before are the first data sent on it.
C13_BufferedChunksFirst ==
    [][/\ (Len(stt') > Len(stt) =>
              /\ last_msg' = "audio_chunk"
              /\ nmsgs' = nmsgs + 1
              /\ self'.audio_buffer_before_stt_start # <<>>)
       /\ (SttOpens =>
              /\ self.audio_buffer_before_stt_start # <<>>
              /\ stt_in'[Len(stt)] = self.audio_buffer_before_stt_start)]_vars

\* the edge has sent nothing since the audio of the turn: no interrupt, no new
\* turn and no disconnect reached the response
Undisturbed == phase = "open" /\ nmsgs = 2

Idle ==
    /\ phase = "open"
    /\ ServerQuiescent
    /\ ~self.is_receiving_audio
    /\ ~self.is_playing_audio
    /\ \A id \in DOMAIN stt : stt[id] # "open"

\* the step in which receive() takes this message of the edge
Receives(msg) == nmsgs' = nmsgs + 1 /\ last_msg' = msg

\* C15: an interrupt received while the session is idle is a no-op: the step
\* that takes it changes nothing of the session and writes no frame.
C15_IdleInterruptNoOp ==
    [][(Idle /\ Receives("interrupt"))
          => /\ sent' = <<>>
             /\ self' = self
             /\ rx' = rx
             /\ stt' = stt
             /\ tasks' = tasks]_vars

\* C16: a stop_audio_input received while no audio input is in progress is a
\* no-op: the step that takes it changes nothing of the session and writes no
\* frame, so any number of them leaves the session as it was.
C16_StopWhileNotReceiving ==
    [][(~self.is_receiving_audio /\ Receives("stop_audio_input"))
          => /\ sent' = <<>>
             /\ self' = self
             /\ rx' = rx
             /\ stt' = stt
             /\ stt_in' = stt_in
             /\ tasks' = tasks
             /\ ntasks' = ntasks
             /\ interrupted' = interrupted
             /\ stream_open' = stream_open
             /\ phase' = phase]_vars

\* C16 witness: stop_audio_input was the first message of the session, which
\* had taken no audio input
C16_StopSeenFirst ==
    /\ nmsgs = 1
    /\ last_msg = "stop_audio_input"
    /\ ~self.is_receiving_audio

\* the transport has closed and disconnect() has returned
Dropped == phase = "closed" /\ rx.pc = "idle"

OpenStreams == {id \in DOMAIN stt : stt[id] = "open"}

\* C18: the session never holds more than one open STT stream, and a new
\* StreamingSTTService is created only when every earlier one has been
\* released (closed, or never connected).
C18_OneSttStream ==
    [][/\ Cardinality(OpenStreams') <= 1
       /\ Len(stt') > Len(stt)
             => \A id \in DOMAIN stt : stt[id] \in {"closed", "failed"}]_vars

\* the call of the streamer is over: it returned or it raised
StreamerDone == streamer.pc \in {"returned", "raised"}

\* C19: a call that sends audio_start and is to send audio_end writes, unless
\* a stop_playback supersedes it, audio_start first, then only binary chunks,
\* then exactly one audio_end as its last frame, also when the audio source
\* or the TTS raises.
C19_StartChunksEnd ==
    (/\ streamer.send_start
     /\ streamer.send_end
     /\ \A i \in DOMAIN wire : wire[i] # "stop_playback")
        => /\ wire # <<>> => wire[1] = "audio_start"
           /\ \A i \in 2..Len(wire) :
                 /\ wire[i] \in {"audio", "audio_end"}
                 /\ wire[i] = "audio_end" => i = Len(wire)
           /\ (StreamerDone /\ wire # <<>>) => wire[Len(wire)] = "audio_end"

\* the chunks of session k that the output device took, in order
SessionWrites(k) ==
    SelectSeq(device, LAMBDA e : e.op = "write" /\ e.chunk.session = k)

\* C20: of the chunks of one session written to the output device, only the
\* first carries a fade-in and only the last carries a fade-out, so that at
\* most one chunk of the session has each.
C20_FadeInFirstFadeOutLast ==
    \A k \in 1..MaxSessions :
        \A i \in DOMAIN SessionWrites(k) :
            /\ SessionWrites(k)[i].fade = "in" => i = 1
            /\ SessionWrites(k)[i].fade = "out" => i = Len(SessionWrites(k))

\* the chunks the output device took, in order
Writes == SelectSeq(device, LAMBDA e : e.op = "write")

\* the chunks of s
Members(s) == {s[i] : i \in DOMAIN s}

\* the one session of the run was ended by end_session(), which has returned,
\* and the playback task has reached its idle sleep
EndedIdle ==
    /\ caller.sessions = 1
    /\ caller.interrupts = 0
    /\ caller.write_errors = 0
    /\ ~player.session_active
    /\ caller.pc = "none"
    /\ player.state = "IDLE"
    /\ ploop.pc = "idle_sleep"

\* C21: once a session ended by end_session() has brought the player to idle,
\* the chunks that were in the jitter buffer at the call have all been written
\* to the output device, in the order fed, the last of them with a fade-out,
\* and the device is closed.
C21_EndSessionDrains ==
    EndedIdle =>
        /\ ~player.output_stream
        /\ LET w == SelectSeq(Writes,
                              LAMBDA e : e.chunk \in Members(caller.ended_with))
           IN  /\ Len(w) = Len(caller.ended_with)
               /\ \A i \in DOMAIN w : w[i].chunk = caller.ended_with[i]
               /\ w # <<>> => /\ w[Len(w)].fade = "out"
                              /\ Writes[Len(Writes)] = w[Len(w)]

\* interrupt() is called in this step
Interrupts == caller'.interrupts = caller.interrupts + 1

\* no session is active and none is being ended, or interrupt() was the last
\* method to act on the player
OutsideSession ==
    \/ ~player.session_active /\ caller.pc = "none"
    \/ caller.last = "interrupt"

\* the output device takes a chunk in this step
Takes(chunk) ==
    /\ Len(device') = Len(device) + 1
    /\ device'[Len(device')].op = "write"
    /\ device'[Len(device')].chunk = chunk

\* C22: interrupt() leaves the session inactive, the state IDLE and the jitter
\* buffer empty; a chunk that it found in the buffer is never written to the
\* device afterwards; and called outside a session, or a second time, it
\* changes nothing of the player.
C22_InterruptStopsAtOnce ==
    [][/\ Interrupts => /\ ~player'.session_active
                        /\ player'.state = "IDLE"
                        /\ player'.buffer = <<>>
       /\ \A chunk \in caller.cut : ~Takes(chunk)
       /\ (Interrupts /\ OutsideSession) => player' = player]_vars

\* the playback task hands a chunk to the output device in this step
Submits(chunk) ==
    /\ ploop' # ploop
    /\ ploop'.pc \in {"writing", "drain_writing", "drain_fade_writing"}
    /\ ploop'.chunk = chunk

\* C23: a chunk of a session is handed to the output device only after the
\* jitter buffer has held at least buffering_chunks chunks in that session.
C23_BufferedBeforePlaying ==
    [][\A k \in 1..MaxSessions : \A n \in 1..MaxChunks :
          Submits([session |-> k, n |-> n])
              => caller.peak[k] >= BufferingChunks]_vars

\* feed() is called in this step, with the chunk of this number
Feeds == caller'.fed = caller.fed + 1

\* C24: a feed() that finds the jitter buffer at its cap is refused: nothing is
\* dropped, the chunk is not appended, the buffer stays as it was, and feed
\* returns False.
C24_FullBufferRefuses ==
    [][(Feeds /\ Full(player)) => /\ player' = player
                                  /\ Len(player'.buffer) <= MaxSize
                                  /\ ~caller'.fed_ok]_vars

\* C24: a feed was refused
C24_FeedRefused == caller.last = "feed" /\ ~caller.fed_ok

\* C24 as stated: a feed() that finds the jitter buffer at its cap drops the
\* oldest chunk and appends the new one, and the buffer stays within the cap.
C24_FullBufferDropsOldest ==
    [][(Feeds /\ Full(player)) =>
          /\ player'.buffer = Append(Tail(player.buffer),
                                     [session |-> caller.sessions,
                                      n |-> caller'.fed])
          /\ Len(player'.buffer) <= MaxSize]_vars

\* chunk a was fed before chunk b
FedBefore(a, b) ==
    \/ a.session < b.session
    \/ a.session = b.session /\ a.n < b.n

\* C25: the chunks written to the output device are in the order they were
\* fed, none of them twice, whether the PLAYING branch or the drain wrote
\* them and whatever the producer did meanwhile.
C25_WrittenInFedOrder ==
    \A i \in DOMAIN Writes : \A j \in DOMAIN Writes :
        i < j => FedBefore(Writes[i].chunk, Writes[j].chunk)

\* C25: the PLAYING branch and the drain have both written chunks, and a
\* chunk was fed while the playback task was suspended in a write
C25_PlayedAndDrained ==
    /\ Len(Writes) >= 3
    /\ \E i \in DOMAIN Writes : Writes[i].fade = "in"
    /\ \E i \in DOMAIN Writes : Writes[i].fade = "out"
    /\ caller.last = "feed"
    /\ ploop.pc \in {"writing", "drain_writing", "drain_fade_writing"}

\* the times the output device was opened in session k
Opened(k) ==
    Len(SelectSeq(device, LAMBDA e : e.op = "open" /\ e.chunk.session = k))

\* the output device is closed in this step
Closes ==
    \E i \in (Len(device) + 1)..Len(device') : device'[i].op = "close"

C27_BargeInInterruptsFirst ==
    \A i \in DOMAIN uplink :
        (uplink[i].msg = "start_audio_input" /\ uplink[i].barge)
            => /\ i > 2
               /\ uplink[i - 2].msg = "interrupt"
               /\ uplink[i - 1].msg = "player_interrupt"

\* the messages of u keep to the order of capture sessions: a start only when
\* no capture is open, frames and the stop only in the capture that is open
\* (open is its number, 0 for none)
RECURSIVE InCaptureOrder(_, _)
InCaptureOrder(u, open) ==
    IF u = <<>>
    THEN TRUE
    ELSE CASE Head(u).msg = "start_audio_input" ->
                  /\ open = 0
                  /\ InCaptureOrder(Tail(u), Head(u).session)
           [] Head(u).msg = "audio" ->
                  /\ open # 0
                  /\ open = Head(u).session
                  /\ InCaptureOrder(Tail(u), open)
           [] Head(u).msg = "stop_audio_input" ->
                  /\ open # 0
                  /\ open = Head(u).session
                  /\ InCaptureOrder(Tail(u), 0)
           [] OTHER -> InCaptureOrder(Tail(u), open)

CaptureStopped ==
    /\ ctl.is_running
    /\ ctl.pc = "idle"
    /\ ~ctl.is_streaming
    /\ ctl.reason # "none"

\* C29: once a capture has stopped, for whatever reason, stop_audio_input has
\* been sent for it, the wake word detector is listening again, and the
\* silence detector has no baseline left for a later capture to use.
C29_StopResetsDetectors ==
    CaptureStopped =>
        /\ \E i \in DOMAIN uplink : /\ uplink[i].msg = "stop_audio_input"
                                    /\ uplink[i].session = ctl.sessions
        /\ ctl.listening
        /\ ctl.baseline = 0

\* the loop reads a chunk of a capture whose deadline has passed
ReadsLate ==
    /\ ctl.pc = "idle"
    /\ ctl.is_streaming
    /\ ctl.late
    /\ ctl'.mic = ctl.mic + 1

EndOfSpeechReported ==
    /\ ctl.reason = "silence"
    /\ ctl.cont = "after_stop"

\* C31: when the silence detector reports the end of speech, the last
\* silence_chunks_needed chunks it was given were all below the silence
\* threshold.
C31_SilenceIsSustained ==
    EndOfSpeechReported =>
        /\ Len(ctl.window) = SilenceChunksNeeded
        /\ \A i \in DOMAIN ctl.window : ctl.window[i] = "low"

\* the task of the running controller is suspended in a send of the transport
\* and the microphone has a chunk for it
SendPending ==
    /\ ctl.is_running
    /\ ctl.pc = "sending"
    /\ ctl.mic < MaxMicChunks

\* C32: while a send of a control message or of an audio frame is pending,
\* the loop of the controller can read the next microphone chunk.
C32_ReadsWhileSending ==
    SendPending => ENABLED MicChunk

\* C33: while the client waits before a retry, the wait is initial_retry_delay
\* doubled once for every failed attempt before the last one, the attempts
\* counted since the last connection or the call of connect(), and at most
\* max_retry_delay (1 s, 2 s, 4 s, ... 60 s); and a connection that succeeds
\* leaves the retry counter at zero.
C33_DelayDoublesFromInitial ==
    /\ client.pc = "sleeping"
           => /\ client.fails >= 1
              /\ client.delay = Min(InitialRetryDelay * Pow2(client.fails - 1),
                                    MaxRetryDelay)
    /\ client.pc = "receiving" => client.retry_count = 0

\* C33 witness: after enough failed attempts the client waits max_retry_delay,
\* which is less than the doubling would give
C33_WaitsAtTheCap ==
    /\ client.pc = "sleeping"
    /\ client.delay = MaxRetryDelay
    /\ InitialRetryDelay * Pow2(client.fails - 1) > MaxRetryDelay

\* C33 as stated: after k failed attempts in a row the client waits
\* min(initial_delay * 2^k, max_delay).
C33_DelayDoublesPerFailure ==
    client.pc = "sleeping"
        => client.delay = Min(InitialRetryDelay * Pow2(client.fails),
                              MaxRetryDelay)

\* a connection attempt fails in this step
Fails == client'.fails = client.fails + 1

\* C34: a client with max_retries = N > 0 gives up exactly when N retries in
\* a row have failed after the attempt that failed first, and makes no attempt
\* after that; until then, and always with max_retries = 0, a failed attempt
\* is followed by the wait for the next one.
C34_GivesUpAfterMaxRetries ==
    [][/\ client'.pc = "stopped"
              => /\ client'.max_retries > 0
                 /\ client'.fails = client'.max_retries + 1
                 /\ ~client'.running
       /\ (Fails /\ (client.max_retries = 0
                         \/ client'.fails <= client.max_retries))
              => (client'.pc = "sleeping" /\ client'.running)
       /\ client.pc = "stopped" => client'.attempts = client.attempts]_vars

\* C34 witness: a client with max_retries = 10 has given up
C34_GaveUp ==
    /\ client.pc = "stopped"
    /\ client.max_retries = WsMaxRetries
    /\ client.fails = WsMaxRetries + 1

\* the connection that was established ends in this step, and not by close()
Ends ==
    /\ client.pc = "receiving"
    /\ client'.pc \notin {"receiving", "closed"}

\* C40: when an established connection ends, the client has no connection
\* any more, on_disconnect was called, and the client waits before its next
\* attempt.
C40_EndedConnectionBacksOff ==
    [][Ends => /\ client'.ws = "None"
               /\ client'.disconnects = client.disconnects + 1
               /\ client'.pc = "sleeping"]_vars

\* frame n of stream k is in the buffer of the player
Enqueued(k, n) ==
    \E i \in DOMAIN player.buffer :
        player.buffer[i] = [session |-> k, n |-> n]

\* frame n of stream k was written to the output device
Played(k, n) ==
    \E i \in DOMAIN device : /\ device[i].op = "write"
                             /\ device[i].chunk = [session |-> k, n |-> n]

\* C37: a frame that the handler has put into the buffer of the player is
\* eventually written to the output device, unless the buffer is cleared
\* first.
C37_EnqueuedFramesArePlayed ==
    \A k \in 1..MaxStreams : \A n \in 1..MaxFrames :
        Enqueued(k, n) ~> (Played(k, n) \/ ~Enqueued(k, n))

\* task t decides in this step to answer its transcript: it goes on to
\* _stop_audio_input and _generate_response
Responds(t) ==
    /\ tasks[t].pc \in {"update", "trigger"}
    /\ tasks'[t].generated \/ tasks'[t].pc \in {"closing", "gen"}

\* C35: a transcript that the provider marked neither is_final nor
\* speech_final is answered only when the edge has sent stop_audio_input for
\* the utterance and the confidence of the transcript is above 0.95; the
\* intent found early in an interim starts no answer.
C35_InterimNeverAnswered ==
    [][\A t \in 1..MaxTranscripts :
          (Responds(t) /\ ~tasks[t].final_result)
              => /\ edge_stopped
                 /\ tasks[t].confidence > HighConfidence]_vars

\* the provider was sent chunk k on one of its streams (send_audio reached
\* send_media)
SentToStt(in, k) == \E i \in DOMAIN in : \E j \in DOMAIN in[i] : in[i][j] = k

\* chunk k waits in _audio_buffer_before_stt_start
Buffered(c, k) ==
    \E j \in DOMAIN c.audio_buffer_before_stt_start :
        c.audio_buffer_before_stt_start[j] = k

\* _handle_audio_chunk is entered with a chunk: past its first test
\* (is_receiving_audio), or returning at it
AcceptsChunk ==
    /\ last_msg' = "audio_chunk"
    /\ nmsgs' = nmsgs + 1
    /\ self.is_receiving_audio

IgnoresChunk ==
    /\ last_msg' = "audio_chunk"
    /\ nmsgs' = nmsgs + 1
    /\ ~self.is_receiving_audio

\* C38: a chunk that arrives while is_receiving_audio is set is sent to the
\* provider or buffered for the deferred start, a buffered chunk stays
\* buffered until it is sent to the provider, every stream of the provider
\* gets its chunks in arrival order and no chunk twice, and a chunk that
\* arrives while is_receiving_audio is clear is neither buffered nor sent.
C38_AcceptedChunksReachStt ==
    /\ [](\A i \in DOMAIN stt_in : \A j, k \in DOMAIN stt_in[i] :
              j < k => stt_in[i][j] < stt_in[i][k])
    /\ [](\A i, j \in DOMAIN stt_in : \A k \in 1..MaxClientMsgs :
              (SentToStt(<<stt_in[i]>>, k) /\ SentToStt(<<stt_in[j]>>, k))
                  => i = j)
    /\ [][/\ AcceptsChunk
              => SentToStt(stt_in', nmsgs') \/ Buffered(self', nmsgs')
          /\ IgnoresChunk
              => ~SentToStt(stt_in', nmsgs') /\ ~Buffered(self', nmsgs')
          /\ \A k \in 1..MaxClientMsgs :
                Buffered(self, k)
                    => Buffered(self', k) \/ SentToStt(stt_in', k)]_vars

\* the controller runs, its loop is between two chunks and no capture is on
BetweenCaptures ==
    /\ ctl.is_running
    /\ ctl.pc = "idle"
    /\ ~ctl.is_streaming

\* C39: whenever the running controller is between two chunks with no capture
\* on, the wake word detector is listening, whatever became of the sends of
\* start_audio_input and stop_audio_input before.
C39_ListensBetweenCaptures == BetweenCaptures => ctl.listening

\* ------------------------------------------- the text the response streams
\* The session of StreamSpec with one transcript, answered by the LLM, whose
\* chunks are drawn from more contents: a word, a sentence, an abbreviation
\* with the terminator inside, and ten words with and without a space after
\* them.
T_dotted == <<"a", ".", "a">>
T_ten == T_three \o <<" ">> \o T_three \o <<" ">> \o T_three \o <<" ">> \o T_word
T_ten_space == T_ten \o <<" ">>

FlushTokens == {T_word, T_sentence, T_dotted, T_ten, T_ten_space}

NextFlush ==
    \/ \E n \in 0..1 : Connect(n)
    \/ ReceiveStartAudioInput
    \/ ReceiveAudioChunk
    \/ SttStartReturns(TRUE)
    \/ \E id \in 1..MaxClientMsgs :
           /\ ntasks = 0
           /\ SttResult(id, SttResult_(T_word, "None", TRUE, TRUE, 80))
    \/ \E t \in 1..MaxTranscripts :
        \/ TaskSendTranscript(t)
        \/ TaskUpdate(t)
        \/ TaskCloseDone(t)
        \/ TaskGenerate(t)
        \/ TaskRouted(t, "DIRECT")
        \/ \E c \in FlushTokens, n \in 0..MaxTtsChunks : TaskLlmToken(t, c, n)
        \/ \E n \in 0..MaxTtsChunks : TaskLlmEnd(t, n)
        \/ TaskTtsLoop(t)
        \/ TaskTtsPadded(t)

FlushSpec == InitStream /\ [][NextFlush]_vars

\* _generate_response hands a text to _stream_text_chunk, which goes on to
\* the TTS provider with it
Flushes(t) ==
    /\ tasks[t].pc = "pull"
    /\ tasks'[t].tts_text # <<>>

\* the text ends with ".", "!" or "?"
EndsWithTerminator(s) == s # <<>> /\ s[Len(s)] \in Terminators

====
